---- MODULE Spec2Model ----
(***************************************************************************)
(* Model of the ClanTune genetics core: allele trees, the parallel walk    *)
(* and the synthesis over them, genomes, the three strategy roles and the  *)
(* StrategyOrchestrator.                                                   *)
(*                                                                         *)
(* Numbers: every float of the program is modelled by an integer counting  *)
(* halves (2 stands for 1.0, 3 for 1.5), so that the integer allele's      *)
(* rounded view differs from its raw float.  Probabilities are integers    *)
(* counting halves as well (2 stands for probability 1.0).                 *)
(* Optional values: None is the empty set, a present value x is {x}.       *)
(***************************************************************************)
EXTENDS Integers, Sequences, FiniteSets, TLC

VARIABLES
    alleles,                \* tree level: the list of source trees
    template_idx,           \* tree level: position of the template tree, 0 = a tree not in the list
    handler,                \* tree level: the handler passed by the caller
    include_can_mutate,     \* tree level: filter argument
    include_can_crossbreed, \* tree level: filter argument
    synth,                  \* outcome of synthesize_allele_trees, or Pending
    walked,                 \* outcome of consuming walk_allele_trees, or Pending
    population,             \* the caller's list of genomes
    my_genome,              \* the genome the caller passes with it
    op,                     \* the entry point the caller invoked
    pc,                     \* position inside StrategyOrchestrator.__call__
    ancestry,               \* what ancestry_strategy.apply_strategy returned
    offspring,              \* what crossbreeding_strategy.apply_strategy returned
    mutated_offspring,      \* what mutation_strategy.apply_strategy returned
    returned,               \* outcome of the entry point: a value or an exception
    applied,                \* outcome of the latest strategy or utility call, with its handler calls
    trace,                  \* the strategy calls made so far, with their arguments
    next_id,                \* source of fresh object identities and uuid4() values
    held,                   \* allele level: the allele a caller holds, or Pending
    called,                 \* the latest operation called on it, with its arguments
    outcome,                \* what that operation returned or raised
    data,                   \* the dict produced by serialize, or Pending
    strategy                \* the fields of the concrete strategy in use, or Pending

treeVars == <<alleles, template_idx, handler, include_can_mutate,
              include_can_crossbreed, synth, walked>>

genomeVars == <<population, my_genome, op, pc, ancestry, offspring,
                mutated_offspring, returned, applied, trace, next_id>>

unitVars == <<held, called, outcome, data, strategy>>

vars == <<treeVars, genomeVars, unitVars>>

(***************************************************************************)
(* Bounds                                                                  *)
(***************************************************************************)
MaxSources == 2

MaxPop == 2

\* the largest number (in halves) a caller passes as an allele value
MaxValue == 4

\* largest number of rounds of a tournament selection
MaxRounds == 4

\* largest round_length of an Individual
MaxRoundLength == 4

(***************************************************************************)
(* Python values                                                           *)
(***************************************************************************)
None == {}
Some(x) == {x}
The(s) == CHOOSE x \in s : TRUE

Pending == [kind |-> "pending"]

\* an exception that left the call
Raise(exc) == [kind |-> "raise", exc |-> exc]

\* a value a call returned
Return(v) == [kind |-> "return", value |-> v]

IsReturn(n) == n.kind = "return"

\* a raw (non-allele) metadata value
Raw(v) == [kind |-> "raw", v |-> v]

IsAllele(n) == n.kind = "allele"

IsRaise(n) == n.kind = "raise"

PyBool(b) == [py |-> "bool", b |-> b]

PyNone == [py |-> "NoneType"]

EmptyDict == [k \in {} |-> Pending]

\* dict.update: the entries of g replace or extend those of f
DictUpdate(f, g) ==
    [k \in (DOMAIN f) \cup (DOMAIN g) |-> IF k \in DOMAIN g THEN g[k] ELSE f[k]]

\* lexical order of the metadata keys the model uses, as sorted() yields them
KeyOrder == <<"a", "b", "z">>

Sorted_Descending(keys) ==
    LET up == SelectSeq(KeyOrder, LAMBDA k : k \in keys)
    IN  [i \in 1..Len(up) |-> up[Len(up) + 1 - i]]

Sorted(keys) == SelectSeq(KeyOrder, LAMBDA k : k \in keys)

Max2(a, b) == IF a >= b THEN a ELSE b

Min2(a, b) == IF a <= b THEN a ELSE b

\* Python's round() on a float given in halves: ties go to the even integer
PyRound(h) ==
    IF h % 2 = 0 THEN h
    ELSE LET k == (h - 1) \div 2
         IN  IF k % 2 = 0 THEN 2 * k ELSE 2 * (k + 1)

(***************************************************************************)
(* Alleles                                                                 *)
(***************************************************************************)
AbstractAllele(type, value, domain, can_mutate, can_crossbreed, metadata) ==
    [kind |-> "allele", type |-> type, value |-> value, domain |-> domain,
     can_mutate |-> can_mutate, can_crossbreed |-> can_crossbreed,
     metadata |-> metadata]

\* a variant of the next definition that applies the minimum only
Clamp_MinOnly(value, domain) ==
    IF domain.min # None THEN Max2(The(domain.min), value) ELSE value

\* clamping of the constructors: min first, then max
Clamp(value, domain) ==
    LET lo == IF domain.min # None THEN Max2(The(domain.min), value) ELSE value
    IN  IF domain.max # None THEN Min2(The(domain.max), lo) ELSE lo

\* the constructors' normalisation of the domain argument: None stands for
\* a dict without bounds, a key the dict lacks for a bound of None
NormalDomain(domain) ==
    IF "py" \in DOMAIN domain THEN [min |-> None, max |-> None]
    ELSE [min |-> IF "min" \in DOMAIN domain THEN domain.min ELSE None,
          max |-> IF "max" \in DOMAIN domain THEN domain.max ELSE None]

FloatAllele(value, domain, can_mutate, can_crossbreed, metadata) ==
    AbstractAllele("FloatAllele", Clamp(value, NormalDomain(domain)),
                   NormalDomain(domain), can_mutate, can_crossbreed, metadata)

\* the integer allele keeps the clamped float; its domain bounds are integers
IntAllele(value, domain, can_mutate, can_crossbreed, metadata) ==
    AbstractAllele("IntAllele", Clamp(value, NormalDomain(domain)),
                   NormalDomain(domain), can_mutate, can_crossbreed, metadata)

\* a variant of the next definition without the checks of the minimum
LogFloatAllele_Unchecked(value, domain, can_mutate, can_crossbreed, metadata) ==
    AbstractAllele("LogFloatAllele", Clamp(value, NormalDomain(domain)),
                   NormalDomain(domain), can_mutate, can_crossbreed, metadata)

\* the log allele: an allele, or the ValueError of a missing or non-positive
\* minimum
LogFloatAllele(value, domain, can_mutate, can_crossbreed, metadata) ==
    IF NormalDomain(domain).min = None THEN Raise("ValueError")
    ELSE IF The(NormalDomain(domain).min) <= 0 THEN Raise("ValueError")
    ELSE AbstractAllele("LogFloatAllele", Clamp(value, NormalDomain(domain)),
                        NormalDomain(domain), can_mutate, can_crossbreed, metadata)

\* Python values a caller may pass where a bool or a str is expected
PyInt(n) == [py |-> "int", n |-> n]

PyStr(s) == [py |-> "str", s |-> s]

\* x == y of Python: True equals 1 and False equals 0, a str equals only the
\* same str
PyEq(x, y) ==
    IF x.py = "str" \/ y.py = "str"
    THEN x.py = "str" /\ y.py = "str" /\ x.s = y.s
    ELSE (IF x.py = "bool" THEN (IF x.b THEN 1 ELSE 0) ELSE x.n)
         = (IF y.py = "bool" THEN (IF y.b THEN 1 ELSE 0) ELSE y.n)

BoolDomain == {PyBool(TRUE), PyBool(FALSE)}

\* the boolean allele: value in {True, False} is decided by ==, and the value
\* is stored as it was passed
BoolAllele(value, can_mutate, can_crossbreed, metadata) ==
    IF ~\E d \in BoolDomain : PyEq(value, d) THEN Raise("ValueError")
    ELSE AbstractAllele("BoolAllele", value, BoolDomain,
                        can_mutate, can_crossbreed, metadata)

\* the string allele: domain is None or Some(a set of str)
StringAllele(value, domain, can_mutate, can_crossbreed, metadata) ==
    IF domain = None THEN Raise("ValueError")
    ELSE IF ~\E d \in The(domain) : PyEq(value, PyStr(d)) THEN Raise("ValueError")
    ELSE AbstractAllele("StringAllele", value, The(domain),
                        can_mutate, can_crossbreed, metadata)

\* the fixed domain [2.0, 30.0] of the SBX distribution index
SBXEtaDomain == [min |-> Some(4), max |-> Some(60)]

\* the meta-parameter allele SBXEta(base_eta, can_change), a FloatAllele
\* subclass with a constructor of its own
SBXEta(base_eta, can_change) ==
    AbstractAllele("SBXEta", Clamp(base_eta, SBXEtaDomain), SBXEtaDomain,
                   can_change, can_change, EmptyDict)

\* the value property: the integer allele exposes the rounded float
ValueOf(a) == IF a.type = "IntAllele" THEN PyRound(a.value) ELSE a.value

\* with_overrides: every mutator goes back through the constructor of the
\* allele's class.  ov is a dict of constructor arguments; absent ones keep
\* the current state (the integer allele keeps its raw float).
with_overrides(a, ov) ==
    LET value    == IF "value" \in DOMAIN ov THEN ov.value ELSE a.value
        cm       == IF "can_mutate" \in DOMAIN ov THEN ov.can_mutate ELSE a.can_mutate
        cc       == IF "can_crossbreed" \in DOMAIN ov THEN ov.can_crossbreed
                    ELSE a.can_crossbreed
        metadata == IF "metadata" \in DOMAIN ov THEN ov.metadata ELSE a.metadata
    IN  CASE a.type = "BoolAllele" -> BoolAllele(value, cm, cc, metadata)
          [] a.type = "StringAllele" ->
               StringAllele(value,
                            IF "domain" \in DOMAIN ov THEN ov.domain ELSE Some(a.domain),
                            cm, cc, metadata)
          [] a.type = "SBXEta" -> SBXEta(value, cm)
          [] a.type = "IntAllele" ->
               IntAllele(value, IF "domain" \in DOMAIN ov THEN ov.domain ELSE a.domain,
                         cm, cc, metadata)
          [] a.type = "LogFloatAllele" ->
               LogFloatAllele(value, IF "domain" \in DOMAIN ov THEN ov.domain ELSE a.domain,
                              cm, cc, metadata)
          [] OTHER ->
               FloatAllele(value, IF "domain" \in DOMAIN ov THEN ov.domain ELSE a.domain,
                           cm, cc, metadata)

with_value(a, new_value) == with_overrides(a, [value |-> new_value])

with_metadata(a, updates) ==
    with_overrides(a, [metadata |-> DictUpdate(a.metadata, updates)])

\* a variant of the next definition that leaves the nested alleles in place
flatten_KeepNested(a) ==
    with_metadata(a, [k \in DOMAIN a.metadata |-> a.metadata[k]])

\* one level only: an allele entry becomes its value, a raw entry stays
flatten(a) ==
    with_metadata(a, [k \in DOMAIN a.metadata |->
                        IF IsAllele(a.metadata[k])
                        THEN Raw(ValueOf(a.metadata[k]))
                        ELSE a.metadata[k]])

unflatten(a, resolved_metadata) ==
    with_metadata(a, DictUpdate(a.metadata, resolved_metadata))

(***************************************************************************)
(* Tree utilities                                                          *)
(***************************************************************************)
\* type(a) of a node: the allele class, or the class of a raw value
TypeOf(n) == IF IsAllele(n) THEN n.type ELSE "raw"

\* TRUE when the check passes (no TypeError)
_validate_parallel_types(nodes) ==
    \A i \in DOMAIN nodes : TypeOf(nodes[i]) = TypeOf(nodes[1])

\* a variant of the next definition that compares the domains only
_validate_schemas_match_DomainOnly(nodes) ==
    \A i \in DOMAIN nodes : nodes[i].domain = nodes[1].domain

\* TRUE when the check passes (no ValueError)
_validate_schemas_match(nodes) ==
    /\ \A i \in DOMAIN nodes : nodes[i].domain = nodes[1].domain
    /\ \A i \in DOMAIN nodes : nodes[i].can_mutate = nodes[1].can_mutate
    /\ \A i \in DOMAIN nodes : nodes[i].can_crossbreed = nodes[1].can_crossbreed

\* Python truth value of what reaches the filter parameters: a bool is
\* itself, None is false, an instance of a class that defines neither
\* __bool__ nor __len__ is true
Truthy(x) ==
    CASE x.py = "bool"     -> x.b
      [] x.py = "NoneType" -> FALSE
      [] OTHER             -> TRUE

\* a variant of the next definition that includes every node
_should_include_node_Always(allele, inc_mutate, inc_crossbreed) == TRUE

_should_include_node(allele, inc_mutate, inc_crossbreed) ==
    IF ~Truthy(inc_mutate) /\ ~allele.can_mutate THEN FALSE
    ELSE IF ~Truthy(inc_crossbreed) /\ ~allele.can_crossbreed THEN FALSE
    ELSE TRUE

\* sorted union of the metadata keys of all trees
_collect_metadata_keys(nodes) ==
    Sorted(UNION {DOMAIN nodes[i].metadata : i \in DOMAIN nodes})

\* a variant of the next definition that takes any two raw values for equal
RawEq_AnyRaw(v, w) == ~IsAllele(v) /\ ~IsAllele(w)

\* v == w of Python for metadata nodes: alleles define no __eq__, so an allele
\* equals nothing but itself; raw values compare by value
RawEq(v, w) == ~IsAllele(v) /\ ~IsAllele(w) /\ v.v = w.v

(***************************************************************************)
(* Callables.  A function is a record naming its body (fn) and the names   *)
(* of its parameters (params); a call binds the positional arguments and   *)
(* then the keywords, as Python does.                                      *)
(***************************************************************************)
\* TypeError of a call: a keyword that names no parameter, a keyword for a
\* parameter already bound by position, or a parameter left unbound
BindFails(f, n_positional, keywords) ==
    LET by_position == {f.params[i] : i \in 1..Min2(n_positional, Len(f.params))}
        names       == {f.params[i] : i \in DOMAIN f.params}
    IN  \/ n_positional > Len(f.params)
        \/ ~(keywords \subseteq names)
        \/ keywords \cap by_position # {}
        \/ names # by_position \cup keywords

\* **kwargs of a callee: the keywords passed that name none of its parameters
StarKwargs(passed, named) ==
    [k \in (DOMAIN passed) \ named |-> passed[k]]

\* a function defined as def f(template, sources)
Function(fn) == [fn |-> fn, params |-> <<"template", "sources">>]

\* the closure adapted_handler of the genome utilities: it calls
\* handler(template, sources, **kwargs)
AdaptedHandler(h, kwargs) == [fn |-> "adapted_handler", handler |-> h, kwargs |-> kwargs]

(***************************************************************************)
(* Handlers a caller may pass to the synthesis.  "keep" returns the        *)
(* template; "take_last" is template.with_value(sources[-1].value); the    *)
(* others return an allele whose schema differs from the template's.       *)
(***************************************************************************)
SynthBodies ==
    {"keep", "take_last", "new_domain", "flip_flags", "add_key", "drop_keys"}

SynthHandlers == {Function(b) : b \in SynthBodies}

OtherDomain == [min |-> Some(0 - 8), max |-> Some(8)]

RunBody(fn, template, sources) ==
    CASE fn = "keep"       -> template
      [] fn = "take_last"  -> with_value(template, ValueOf(sources[Len(sources)]))
      [] fn = "new_domain" -> with_overrides(template, [domain |-> OtherDomain])
      [] fn = "flip_flags" -> with_overrides(template,
                                 [can_mutate |-> ~template.can_mutate,
                                  can_crossbreed |-> ~template.can_crossbreed])
      [] fn = "add_key"    -> with_metadata(template, [z |-> Raw(0)])
      [] fn = "drop_keys"  -> with_overrides(template, [metadata |-> EmptyDict])

\* handle_adapter of AbstractMutationStrategy.apply_strategy: the last entry
\* (the mutatee's own allele) is dropped before the hook sees the population
handle_adapter(hook, allele, allele_population) ==
    RunBody(hook, allele, SubSeq(allele_population, 1, Len(allele_population) - 1))

\* the call handler(template, sources) made by the synthesis; the result is
\* an allele or the exception the call raised
CallSynthHandler(h, template, sources) ==
    IF h.fn = "adapted_handler"
    THEN IF BindFails(h.handler, 2, DOMAIN h.kwargs)
         THEN Raise("TypeError")
         ELSE IF h.handler.fn = "handle_adapter"
         THEN handle_adapter(h.handler.hook, template, sources)
         ELSE IF h.handler.fn = "update_adapter"
         THEN IF BindFails(h.handler.hook, 1, DOMAIN h.kwargs)
              THEN Raise("TypeError")
              ELSE RunBody(h.handler.hook.fn, template, <<>>)
         ELSE RunBody(h.handler.fn, template, sources)
    ELSE IF BindFails(h, 2, {}) THEN Raise("TypeError")
    ELSE RunBody(h.fn, template, sources)

\* the population argument the body of the strategy hook is entered with:
\* None when the call raised before entering it
HookReceived(h, sources) ==
    IF h.fn = "adapted_handler"
    THEN IF BindFails(h.handler, 2, DOMAIN h.kwargs) THEN None
         ELSE IF h.handler.fn = "handle_adapter"
         THEN Some(SubSeq(sources, 1, Len(sources) - 1))
         ELSE Some(sources)
    ELSE IF BindFails(h, 2, {}) THEN None
    ELSE Some(sources)

\* outcome of a synthesis: the node built (or the exception raised) and the
\* handler calls made so far, in order
SynthOut(node, calls) == [node |-> node, calls |-> calls]

RECURSIVE _synthesize_allele_trees_impl(_, _, _, _, _)
RECURSIVE SynthChildren(_, _, _, _, _, _, _)

\* the loop over the metadata keys (children first), from position i of keys;
\* acc is [resolved |-> dict, calls |-> seq]
SynthChildren(t_idx, nodes, keys, i, h, inc_mutate, inc_crossbreed) ==
    IF i > Len(keys) THEN [resolved |-> EmptyDict, calls |-> <<>>, exc |-> None]
    ELSE
      LET key == keys[i]
      IN  IF \E j \in DOMAIN nodes : key \notin DOMAIN nodes[j].metadata
          THEN [resolved |-> EmptyDict, calls |-> <<>>, exc |-> Some("KeyError")]
          ELSE
            LET values == [j \in DOMAIN nodes |-> nodes[j].metadata[key]]
                child  == _synthesize_allele_trees_impl(t_idx, values, h,
                                                        inc_mutate, inc_crossbreed)
            IN  IF IsRaise(child.node)
                THEN [resolved |-> EmptyDict, calls |-> child.calls,
                      exc |-> Some(child.node.exc)]
                ELSE
                  LET rest == SynthChildren(t_idx, nodes, keys, i + 1, h,
                                            inc_mutate, inc_crossbreed)
                  IN  [resolved |-> DictUpdate([k \in {key} |-> child.node],
                                               rest.resolved),
                       calls |-> child.calls \o rest.calls,
                       exc |-> rest.exc]

_synthesize_allele_trees_impl(t_idx, nodes, h, inc_mutate, inc_crossbreed) ==
    IF ~IsAllele(nodes[1])
    THEN IF \A j \in DOMAIN nodes : RawEq(nodes[j], nodes[1])
         THEN SynthOut(nodes[1], <<>>)
         ELSE SynthOut(Raise("ValueError"), <<>>)
    ELSE IF ~_validate_parallel_types(nodes)
    THEN SynthOut(Raise("TypeError"), <<>>)
    ELSE IF ~_validate_schemas_match(nodes)
    THEN SynthOut(Raise("ValueError"), <<>>)
    ELSE
      LET kids == SynthChildren(t_idx, nodes, _collect_metadata_keys(nodes), 1,
                                h, inc_mutate, inc_crossbreed)
      IN  IF kids.exc # None
          THEN SynthOut(Raise(The(kids.exc)), kids.calls)
          ELSE
            LET template == with_metadata(nodes[t_idx], kids.resolved)
            IN  IF ~_should_include_node(template, inc_mutate, inc_crossbreed)
                THEN SynthOut(template, kids.calls)
                ELSE
                  LET flattened_template == flatten(template)
                      flattened_sources  ==
                          [j \in DOMAIN nodes |-> flatten(nodes[j])]
                      result == CallSynthHandler(h, flattened_template,
                                                 flattened_sources)
                      calls  == Append(kids.calls,
                                       [template |-> flattened_template,
                                        sources |-> flattened_sources,
                                        received |-> HookReceived(h, flattened_sources)])
                  IN  IF IsRaise(result) THEN SynthOut(result, calls)
                      ELSE SynthOut(unflatten(result, kids.resolved), calls)

\* t_idx = 0 stands for a template_tree that is not in the list
synthesize_allele_trees(t_idx, nodes, h, inc_mutate, inc_crossbreed) ==
    IF nodes = <<>> THEN SynthOut(Raise("ValueError"), <<>>)
    ELSE IF t_idx = 0 THEN SynthOut(Raise("ValueError"), <<>>)
    ELSE _synthesize_allele_trees_impl(t_idx, nodes, h, inc_mutate, inc_crossbreed)

(***************************************************************************)
(* The parallel walk.  The generator is modelled by what a consumer that   *)
(* drains it observes: the handler calls in order, the values yielded in   *)
(* order, and the exception that ended it (None when it ran to its end).   *)
(***************************************************************************)
WalkBodies == {"first_value", "nothing"}

\* a function defined as def f(alleles)
WalkFunction(fn) == [fn |-> fn, params |-> <<"alleles">>]

WalkHandlers == {WalkFunction(b) : b \in WalkBodies}

RunWalkBody(fn, flattened) ==
    IF fn = "first_value" THEN Some(ValueOf(flattened[1])) ELSE None

\* the call handler(flattened_alleles) made by the walk: [exc, value], exc
\* the exception the call raised (or None), value the Optional it returned
CallWalkHandler(h, flattened) ==
    IF h.fn = "adapted_handler"
    THEN IF BindFails(h.handler, 1, DOMAIN h.kwargs)
         THEN [exc |-> Some("TypeError"), value |-> None]
         ELSE [exc |-> None, value |-> RunWalkBody(h.handler.fn, flattened)]
    ELSE IF BindFails(h, 1, {}) THEN [exc |-> Some("TypeError"), value |-> None]
    ELSE [exc |-> None, value |-> RunWalkBody(h.fn, flattened)]

WalkOut(calls, yielded, exc) == [calls |-> calls, yielded |-> yielded, exc |-> exc]

RECURSIVE walk_allele_trees(_, _, _, _)
RECURSIVE WalkChildren(_, _, _, _, _, _)

WalkChildren(nodes, keys, i, h, inc_mutate, inc_crossbreed) ==
    IF i > Len(keys) THEN WalkOut(<<>>, <<>>, None)
    ELSE
      LET key == keys[i]
      IN  IF key \notin DOMAIN nodes[1].metadata
          THEN WalkOut(<<>>, <<>>, Some("KeyError"))
          ELSE IF ~IsAllele(nodes[1].metadata[key])
          THEN WalkChildren(nodes, keys, i + 1, h, inc_mutate, inc_crossbreed)
          ELSE IF \E j \in DOMAIN nodes : key \notin DOMAIN nodes[j].metadata
          THEN WalkOut(<<>>, <<>>, Some("KeyError"))
          ELSE
            LET subtrees == [j \in DOMAIN nodes |-> nodes[j].metadata[key]]
                child    == walk_allele_trees(subtrees, h, inc_mutate, inc_crossbreed)
            IN  IF child.exc # None THEN child
                ELSE
                  LET rest == WalkChildren(nodes, keys, i + 1, h,
                                           inc_mutate, inc_crossbreed)
                  IN  WalkOut(child.calls \o rest.calls,
                              child.yielded \o rest.yielded, rest.exc)

walk_allele_trees(nodes, h, inc_mutate, inc_crossbreed) ==
    IF ~_validate_parallel_types(nodes)
    THEN WalkOut(<<>>, <<>>, Some("TypeError"))
    ELSE
      LET kids == WalkChildren(nodes, _collect_metadata_keys(nodes), 1, h,
                               inc_mutate, inc_crossbreed)
      IN  IF kids.exc # None THEN kids
          ELSE IF ~_should_include_node(nodes[1], inc_mutate, inc_crossbreed)
          THEN kids
          ELSE
            LET flattened_alleles == [j \in DOMAIN nodes |-> flatten(nodes[j])]
                result == CallWalkHandler(h, flattened_alleles)
            IN  WalkOut(Append(kids.calls, flattened_alleles),
                        IF result.value # None
                        THEN Append(kids.yielded, The(result.value))
                        ELSE kids.yielded,
                        result.exc)

(***************************************************************************)
(* Genomes                                                                 *)
(***************************************************************************)
\* the predicate classes the strategies import from the allele module
CanMutateFilter(flag) == [py |-> "object", cls |-> "CanMutateFilter", arg |-> flag]

CanCrossbreedFilter(flag) ==
    [py |-> "object", cls |-> "CanCrossbreedFilter", arg |-> flag]

\* obj is the identity of the Python object: Genome defines no __eq__, so
\* "in" and list.index compare identities.  fresh is a number never used
\* before: it names the new object and, where the code calls uuid4(), is the
\* new identifier.
Genome(obj, uuid, genome_alleles, parents, fitness) ==
    [obj |-> obj, uuid |-> uuid, alleles |-> genome_alleles,
     parents |-> parents, fitness |-> fitness]

\* each override is Some(x), or None to keep the current field
Genome_with_overrides(self, fresh, uuid, genome_alleles, parents, fitness) ==
    Genome(fresh,
           IF uuid # None THEN The(uuid) ELSE self.uuid,
           IF genome_alleles # None THEN The(genome_alleles) ELSE self.alleles,
           IF parents # None THEN parents ELSE self.parents,
           IF fitness # None THEN fitness ELSE self.fitness)

\* a variant of the next definition that gives the new identifier but leaves
\* the ancestry as it was
with_ancestry_IdOnly(self, fresh, parents) ==
    Genome_with_overrides(self, fresh, Some(fresh), None, None, None)

with_ancestry(self, fresh, parents) ==
    Genome_with_overrides(self, fresh, Some(fresh), None, Some(parents), None)

InList(g, genomes) == \E i \in DOMAIN genomes : genomes[i].obj = g.obj

\* list.index: the first position holding the object
IndexOf(g, genomes) ==
    CHOOSE i \in DOMAIN genomes :
        /\ genomes[i].obj = g.obj
        /\ \A j \in 1..(i - 1) : genomes[j].obj # g.obj

\* iteration order of the hyperparameter names of a genome
NameOrder == <<"lr", "wd">>

NamesOf(g) == SelectSeq(NameOrder, LAMBDA n : n \in DOMAIN g.alleles)

\* a variant of the next definition that accepts genomes holding more names
\* than the first one
SameKeys_Superset(genomes) ==
    \A i \in DOMAIN genomes :
        DOMAIN genomes[1].alleles \subseteq DOMAIN genomes[i].alleles

SameKeys(genomes) ==
    \A i \in DOMAIN genomes : DOMAIN genomes[i].alleles = DOMAIN genomes[1].alleles

\* outcome of a genome utility: what it returned or raised, and the handler
\* calls the tree algorithms made
GenomeOut(out, handler_calls) == [out |-> out, calls |-> handler_calls]

\* alleles[name] of every genome, in list order
AllelesAt(genomes, name) == [j \in DOMAIN genomes |-> genomes[j].alleles[name]]

\* one round of the loop of synthesize_genomes: acc is what the rounds before
\* built, out the outcome of the tree synthesis for name
SynthRound(acc, name, out) ==
    IF IsRaise(out.node)
    THEN [alleles |-> acc.alleles, calls |-> acc.calls \o out.calls,
          exc |-> Some(out.node.exc)]
    ELSE [alleles |-> DictUpdate(acc.alleles, [k \in {name} |-> out.node]),
          calls |-> acc.calls \o out.calls, exc |-> None]

RECURSIVE SynthNames(_, _, _, _, _, _, _)

\* the loop of synthesize_genomes over the hyperparameter names.  The tree
\* utility is called as synthesize_allele_trees(template_allele, alleles,
\* adapted_handler, predicate): predicate lands on include_can_mutate and
\* include_can_crossbreed keeps its default True.  The utility finds the
\* template with alleles.index(template_allele): the first identical object,
\* which holds the same tree as the one at t_idx.
SynthNames(t_idx, genomes, names, i, h, predicate, acc) ==
    IF i > Len(names) \/ acc.exc # None THEN acc
    ELSE SynthNames(t_idx, genomes, names, i + 1, h, predicate,
                    SynthRound(acc, names[i],
                               synthesize_allele_trees(
                                   t_idx, AllelesAt(genomes, names[i]), h,
                                   predicate, PyBool(TRUE))))

\* the end of synthesize_genomes: the new genome, unless the loop raised
NewGenome(r, fresh) ==
    IF r.exc # None THEN GenomeOut(Raise(The(r.exc)), r.calls)
    ELSE GenomeOut(Return(Genome(fresh, fresh, r.alleles, None, None)), r.calls)

synthesize_genomes(main_genome, genomes, h, predicate, kwargs, fresh) ==
    IF genomes = <<>> THEN GenomeOut(Raise("ValueError"), <<>>)
    ELSE IF ~InList(main_genome, genomes) THEN GenomeOut(Raise("ValueError"), <<>>)
    ELSE IF ~SameKeys(genomes) THEN GenomeOut(Raise("ValueError"), <<>>)
    ELSE NewGenome(SynthNames(IndexOf(main_genome, genomes), genomes,
                              NamesOf(genomes[1]), 1, AdaptedHandler(h, kwargs),
                              predicate,
                              [alleles |-> EmptyDict, calls |-> <<>>, exc |-> None]),
                   fresh)

\* Genome.synthesize_new_alleles(self, population, handler, predicate=None,
\* **kwargs): keywords are the keyword arguments of the call
synthesize_new_alleles(self, genomes, h, keywords, fresh) ==
    synthesize_genomes(self, genomes, h,
                       IF "predicate" \in DOMAIN keywords
                       THEN keywords.predicate ELSE PyNone,
                       StarKwargs(keywords, {"population", "handler", "predicate"}),
                       fresh)

\* what a consumer has seen after one more tree walk
WalkRound(acc, out) ==
    WalkOut(acc.calls \o out.calls, acc.yielded \o out.yielded, out.exc)

RECURSIVE WalkNames(_, _, _, _, _, _)

WalkNames(genomes, names, i, h, predicate, acc) ==
    IF i > Len(names) \/ acc.exc # None THEN acc
    ELSE WalkNames(genomes, names, i + 1, h, predicate,
                   WalkRound(acc, walk_allele_trees(AllelesAt(genomes, names[i]),
                                                    h, predicate, PyBool(TRUE))))

\* walk_genome_alleles(genomes, handler, predicate, **kwargs), drained
walk_genome_alleles(genomes, h, predicate, kwargs) ==
    IF genomes = <<>> THEN WalkOut(<<>>, <<>>, None)
    ELSE IF ~SameKeys(genomes) THEN WalkOut(<<>>, <<>>, Some("ValueError"))
    ELSE WalkNames(genomes, NamesOf(genomes[1]), 1, AdaptedHandler(h, kwargs),
                   predicate, WalkOut(<<>>, <<>>, None))

\* list(walk_genome_alleles(...)): the list built, or the exception
ListOfWalk(r) ==
    GenomeOut(IF r.exc # None THEN Raise(The(r.exc)) ELSE Return(r.yielded),
              r.calls)

(***************************************************************************)
(* Strategies.  A declaration is a list of <<probability, uuid>>.          *)
(***************************************************************************)
\* a variant of the next definition without the membership check
AncestryApply_NoMembership(genome, genomes, declared) ==
    IF \E i \in DOMAIN genomes : genomes[i].fitness = None
    THEN Raise("ValueError")
    ELSE IF Len(declared) # Len(genomes) THEN Raise("ValueError")
    ELSE Return(declared)

\* AbstractAncestryStrategy.apply_strategy; declared is what the
\* select_ancestry hook returns for these arguments
AncestryApply(genome, genomes, declared) ==
    IF \E i \in DOMAIN genomes : genomes[i].fitness = None
    THEN Raise("ValueError")
    ELSE IF ~InList(genome, genomes) THEN Raise("ValueError")
    ELSE IF Len(declared) # Len(genomes) THEN Raise("ValueError")
    ELSE Return(declared)

\* the bound method self.handle_crossbreeding(template, allele_population,
\* ancestry), hook being its body
HandleCrossbreeding(hook) ==
    [fn |-> hook, params |-> <<"template", "allele_population", "ancestry">>]

\* the local function handle_adapter(allele, allele_population, ancestry)
HandleAdapter(hook) ==
    [fn |-> "handle_adapter", hook |-> hook,
     params |-> <<"allele", "allele_population", "ancestry">>]

\* AbstractCrossbreedingStrategy.apply_strategy
CrossbreedingApply(hook, genome, genomes, declaration, fresh) ==
    synthesize_new_alleles(genome, genomes, HandleCrossbreeding(hook),
                           [predicate |-> CanCrossbreedFilter(TRUE),
                            kwargs |-> [ancestry |-> declaration]],
                           fresh)

\* AbstractMutationStrategy.apply_strategy: the mutatee is appended to a copy
\* of the population
MutationApply(hook, genome, genomes, declaration, fresh) ==
    synthesize_new_alleles(genome, Append(genomes, genome), HandleAdapter(hook),
                           [predicate |-> CanMutateFilter(TRUE),
                            kwargs |-> [ancestry |-> declaration]],
                           fresh)

\* bodies a concrete strategy may give its hook
HookBodies == {"keep", "take_last"}

(***************************************************************************)
(* Trees the callers build                                                 *)
(***************************************************************************)
Unbounded == [min |-> None, max |-> None]

ZeroToThree == [min |-> Some(0), max |-> Some(6)]

Leaf(v, can_mutate, can_crossbreed) ==
    FloatAllele(v, Unbounded, can_mutate, can_crossbreed, EmptyDict)

Node(flag, metadata) == FloatAllele(2, Unbounded, flag, flag, metadata)

TreePool ==
    { Leaf(2, TRUE, TRUE), Leaf(4, TRUE, TRUE),
      Leaf(2, FALSE, TRUE), Leaf(2, TRUE, FALSE),
      FloatAllele(2, ZeroToThree, TRUE, TRUE, EmptyDict),
      IntAllele(3, Unbounded, TRUE, TRUE, EmptyDict),
      Node(TRUE, [a |-> Raw(5)]),
      Node(TRUE, [a |-> Raw(6)]),
      Node(TRUE, [a |-> Leaf(2, TRUE, TRUE)]),
      Node(TRUE, [a |-> Leaf(4, TRUE, TRUE)]),
      Node(TRUE, [a |-> Leaf(4, FALSE, FALSE)]),
      Node(TRUE, [a |-> FloatAllele(4, ZeroToThree, TRUE, TRUE, EmptyDict)]),
      Node(FALSE, [a |-> Leaf(4, TRUE, TRUE), b |-> Leaf(6, TRUE, TRUE)]),
      Node(FALSE, [a |-> Leaf(6, TRUE, TRUE), b |-> Raw(5)]),
      Node(FALSE, [a |-> Leaf(6, TRUE, TRUE), b |-> Leaf(4, TRUE, TRUE)]),
      Node(TRUE, [a |-> Node(FALSE, [b |-> Leaf(4, TRUE, TRUE)])]),
      Node(TRUE, [a |-> Node(FALSE, [b |-> Leaf(6, TRUE, FALSE)])]) }

(***************************************************************************)
(* The callers' genomes                                                    *)
(***************************************************************************)
\* a hyperparameter closed to both mutation and crossbreeding
Frozen == Leaf(4, FALSE, FALSE)

AllelePackages ==
    { EmptyDict,
      [lr |-> Leaf(2, TRUE, TRUE)],
      [lr |-> Frozen],
      [lr |-> Leaf(4, TRUE, TRUE),
       wd |-> Node(FALSE, [a |-> Leaf(6, TRUE, TRUE)])] }

\* <<fitness, parents>> of a genome of the caller: never evaluated, evaluated,
\* or evaluated and carrying the ancestry of an earlier round
Histories ==
    { <<None, None>>, <<Some(2), None>>, <<Some(4), Some(<<<<2, 0>>>>)>> }

GenomePool(obj, uuid) ==
    { Genome(obj, uuid, p, h[2], h[1]) : p \in AllelePackages, h \in Histories }

Populations ==
    UNION { { [i \in 1..n |-> Genome(i, i, c[i][1], c[i][2][2], c[i][2][1])] :
                c \in [1..n -> AllelePackages \X Histories] } : n \in 1..MaxPop }

\* the genome passed with a population: one of its members, another genome,
\* or a copy of the first member (the same uuid in another object)
Candidates(genomes) ==
    {genomes[i] : i \in DOMAIN genomes}
      \cup GenomePool(Len(genomes) + 1, Len(genomes) + 1)
      \cup {Genome_with_overrides(genomes[1], Len(genomes) + 1,
                                  None, None, None, None)}

Probabilities == {0, 1, 2}

\* what a select_ancestry hook may return for a population: a list of
\* <<probability, uuid>>, of any length up to one more than the population's
Declarations(genomes) ==
    UNION { { [i \in 1..n |-> <<q[i], IF i <= Len(genomes) THEN genomes[i].uuid ELSE 0>>] :
                q \in [1..n -> Probabilities] } : n \in 0..(Len(genomes) + 1) }

\* an entry of trace: the strategy step called and its arguments
Entry(step, genome, declaration, hook, declared) ==
    [step |-> step, genome |-> genome.obj, ancestry |-> declaration,
     hook |-> hook, declared |-> declared]

UnitIdle ==
    /\ held = Pending
    /\ called = Pending
    /\ outcome = Pending
    /\ data = Pending
    /\ strategy = Pending

TreeIdle ==
    /\ alleles = <<>>
    /\ template_idx = 0
    /\ handler = Function("unset")
    /\ include_can_mutate = PyNone
    /\ include_can_crossbreed = PyNone
    /\ synth = Pending
    /\ walked = Pending

GenomeIdle ==
    /\ population = <<>>
    /\ my_genome = Genome(0, 0, EmptyDict, None, None)
    /\ op = "tree"
    /\ pc = "start"
    /\ ancestry = Pending
    /\ offspring = Pending
    /\ mutated_offspring = Pending
    /\ returned = Pending
    /\ applied = GenomeOut(Pending, <<>>)
    /\ trace = <<>>
    /\ next_id = 1

Init ==
    /\ TreeIdle
    /\ UnitIdle
    /\ population \in Populations
    /\ my_genome \in Candidates(population)
    /\ op = "none"
    /\ pc = "start"
    /\ ancestry = Pending
    /\ offspring = Pending
    /\ mutated_offspring = Pending
    /\ returned = Pending
    /\ applied = GenomeOut(Pending, <<>>)
    /\ trace = <<>>
    /\ next_id = Len(population) + 2

(***************************************************************************)
(* StrategyOrchestrator.__call__(my_genome, population), one action per    *)
(* strategy step.  An exception of a step leaves the call.                 *)
(***************************************************************************)
\* a variant of the next definition in which the mutation step is handed the
\* candidate instead of the crossbreeding result
MutationInput_Candidate(candidate, crossbred) == candidate

\* the genome handed to the mutation step
MutationInput(candidate, crossbred) == crossbred

\* the declaration handed to the crossbreeding, mutation and attach steps
AncestryInput(selected, candidate) == selected

SelectAncestry ==
    /\ op = "none"
    /\ \E declared \in Declarations(population) :
         /\ ancestry' = AncestryApply(my_genome, population, declared)
         /\ trace' = Append(trace, Entry("select", my_genome, None,
                                         "select_ancestry", declared))
    /\ pc' = IF IsRaise(ancestry') THEN "raised" ELSE "selected"
    /\ returned' = IF IsRaise(ancestry') THEN ancestry' ELSE Pending
    /\ op' = "reproduce"
    /\ UNCHANGED <<treeVars, unitVars, population, my_genome, offspring,
                   mutated_offspring, applied, next_id>>

\* what __call__ does with the outcome of a strategy step: an exception
\* leaves the call, a genome lets it go on from position then
StepTaken(then) ==
    /\ pc' = IF IsRaise(applied'.out) THEN "raised" ELSE then
    /\ returned' = IF IsRaise(applied'.out) THEN applied'.out ELSE Pending

Crossbreed ==
    /\ op = "reproduce" /\ pc = "selected"
    /\ \E hook \in HookBodies :
         /\ applied' = CrossbreedingApply(
                           hook, my_genome, population,
                           AncestryInput(ancestry.value, my_genome.parents),
                           next_id)
         /\ trace' = Append(trace, Entry("crossbreed", my_genome,
                        Some(AncestryInput(ancestry.value, my_genome.parents)),
                        hook, <<>>))
    /\ offspring' = applied'.out
    /\ StepTaken("crossbred")
    /\ next_id' = next_id + 1
    /\ UNCHANGED <<treeVars, unitVars, population, my_genome, op, ancestry,
                   mutated_offspring>>

Mutate ==
    /\ op = "reproduce" /\ pc = "crossbred"
    /\ \E hook \in HookBodies :
         /\ applied' = MutationApply(
                           hook, MutationInput(my_genome, offspring.value),
                           population,
                           AncestryInput(ancestry.value, my_genome.parents),
                           next_id)
         /\ trace' = Append(trace,
                        Entry("mutate", MutationInput(my_genome, offspring.value),
                              Some(AncestryInput(ancestry.value, my_genome.parents)),
                              hook, <<>>))
    /\ mutated_offspring' = applied'.out
    /\ StepTaken("mutated")
    /\ next_id' = next_id + 1
    /\ UNCHANGED <<treeVars, unitVars, population, my_genome, op, ancestry, offspring>>

AttachAncestry ==
    /\ op = "reproduce" /\ pc = "mutated"
    /\ returned' = Return(with_ancestry(
                       mutated_offspring.value, next_id,
                       AncestryInput(ancestry.value, my_genome.parents)))
    /\ trace' = Append(trace,
                    Entry("attach", mutated_offspring.value,
                          Some(AncestryInput(ancestry.value, my_genome.parents)),
                          "with_ancestry", <<>>))
    /\ pc' = "done"
    /\ next_id' = next_id + 1
    /\ UNCHANGED <<treeVars, unitVars, population, my_genome, op, ancestry, offspring,
                   mutated_offspring, applied>>

(***************************************************************************)
(* Direct calls of a strategy and of the genome utilities                  *)
(***************************************************************************)
\* the declaration a caller passes with a direct call: every member in equal
\* parts
Uniform(genomes) == [i \in DOMAIN genomes |-> <<1, genomes[i].uuid>>]

\* mutation_strategy.apply_strategy(my_genome, population, ancestry)
CallMutation ==
    /\ op = "none"
    /\ \E hook \in HookBodies :
         /\ applied' = MutationApply(hook, my_genome, population,
                                     Uniform(population), next_id)
         /\ trace' = Append(trace, Entry("mutate", my_genome,
                                         Some(Uniform(population)), hook, <<>>))
    /\ returned' = applied'.out
    /\ op' = "mutate"
    /\ pc' = "called"
    /\ next_id' = next_id + 1
    /\ UNCHANGED <<treeVars, unitVars, population, my_genome, ancestry, offspring,
                   mutated_offspring>>

\* crossbreeding_strategy.apply_strategy(my_genome, population, ancestry)
CallCrossbreeding ==
    /\ op = "none"
    /\ \E hook \in HookBodies :
         /\ applied' = CrossbreedingApply(hook, my_genome, population,
                                          Uniform(population), next_id)
         /\ trace' = Append(trace, Entry("crossbreed", my_genome,
                                         Some(Uniform(population)), hook, <<>>))
    /\ returned' = applied'.out
    /\ op' = "crossbreed"
    /\ pc' = "called"
    /\ next_id' = next_id + 1
    /\ UNCHANGED <<treeVars, unitVars, population, my_genome, ancestry, offspring,
                   mutated_offspring>>

\* the filter arguments a caller of the genome utilities passes
Predicates == {PyNone, PyBool(TRUE)}

\* synthesize_genomes(my_genome, population, handler, predicate)
CallSynthesizeGenomes ==
    /\ op = "none"
    /\ \E h \in {Function("keep"), Function("take_last")}, predicate \in Predicates :
         applied' = synthesize_genomes(my_genome, population, h, predicate,
                                       EmptyDict, next_id)
    /\ returned' = applied'.out
    /\ op' = "synthesize_genomes"
    /\ pc' = "called"
    /\ next_id' = next_id + 1
    /\ UNCHANGED <<treeVars, unitVars, population, my_genome, ancestry, offspring,
                   mutated_offspring, trace>>

\* list(walk_genome_alleles(population, handler, predicate))
CallWalkGenomes ==
    /\ op = "none"
    /\ \E h \in WalkHandlers, predicate \in Predicates :
         applied' = ListOfWalk(walk_genome_alleles(population, h, predicate,
                                                   EmptyDict))
    /\ returned' = applied'.out
    /\ op' = "walk_genomes"
    /\ pc' = "called"
    /\ UNCHANGED <<treeVars, unitVars, population, my_genome, ancestry, offspring,
                   mutated_offspring, trace, next_id>>

Next ==
    \/ SelectAncestry
    \/ Crossbreed
    \/ Mutate
    \/ AttachAncestry
    \/ CallCrossbreeding
    \/ CallMutation
    \/ CallSynthesizeGenomes
    \/ CallWalkGenomes

Spec == Init /\ [][Next]_vars

(***************************************************************************)
(* Tree-level specification: the callers' inputs are drawn from a pool of  *)
(* trees, then one of the two tree algorithms is applied.                  *)
(***************************************************************************)
TreeInit ==
    /\ alleles \in UNION {[1..n -> TreePool] : n \in 1..MaxSources}
    /\ template_idx = 0
    /\ handler = Function("unset")
    /\ include_can_mutate = PyNone
    /\ include_can_crossbreed = PyNone
    /\ synth = Pending
    /\ walked = Pending
    /\ GenomeIdle
    /\ UnitIdle

\* synthesize_allele_trees(template_tree, alleles, handler, include_can_mutate,
\* include_can_crossbreed), template_tree being alleles[t] or a tree not in
\* the list (t = 0)
Synthesize ==
    /\ synth = Pending /\ walked = Pending
    /\ \E t \in 0..Len(alleles), h \in SynthHandlers, icm \in BOOLEAN, icc \in BOOLEAN :
         /\ template_idx' = t
         /\ handler' = h
         /\ include_can_mutate' = PyBool(icm)
         /\ include_can_crossbreed' = PyBool(icc)
         /\ synth' = synthesize_allele_trees(t, alleles, h, PyBool(icm), PyBool(icc))
    /\ UNCHANGED <<alleles, walked, genomeVars, unitVars>>

\* list(walk_allele_trees(alleles, handler, include_can_mutate,
\* include_can_crossbreed))
WalkTrees ==
    /\ synth = Pending /\ walked = Pending
    /\ \E h \in WalkHandlers, icm \in BOOLEAN, icc \in BOOLEAN :
         /\ handler' = h
         /\ include_can_mutate' = PyBool(icm)
         /\ include_can_crossbreed' = PyBool(icc)
         /\ walked' = walk_allele_trees(alleles, h, PyBool(icm), PyBool(icc))
    /\ UNCHANGED <<alleles, template_idx, synth, genomeVars, unitVars>>

TreeNext == Synthesize \/ WalkTrees

SpecTree == TreeInit /\ [][TreeNext]_vars

(***************************************************************************)
(* Properties of the reproduction cycle                                    *)
(***************************************************************************)
StepOrder == <<"select", "crossbreed", "mutate", "attach">>

Unfit(genomes) == \E i \in DOMAIN genomes : genomes[i].fitness = None

Outsider(genome, genomes) == \A i \in DOMAIN genomes : genomes[i].obj # genome.obj

\* C3: AbstractAncestryStrategy.apply_strategy raises, and returns no
\* declaration, when some genome of the population has no fitness, when the
\* candidate is not a member of the population, and when the declaration of
\* the hook has a length other than the population's.
C3_AncestryValidation ==
    (/\ op = "reproduce"
     /\ \/ Unfit(population)
        \/ Outsider(my_genome, population)
        \/ Len(trace[1].declared) # Len(population))
      => /\ IsRaise(ancestry)
         /\ pc = "raised"
         /\ returned = ancestry

\* the candidate is a copy of the first member: the same uuid, another object
C3_Witness ==
    /\ op = "reproduce"
    /\ ~Unfit(population)
    /\ Outsider(my_genome, population)
    /\ my_genome.uuid = population[1].uuid
    /\ Len(trace[1].declared) = Len(population)
    /\ IsRaise(ancestry)

RECURSIVE SumOfProbabilities(_)

SumOfProbabilities(declaration) ==
    IF declaration = <<>> THEN 0
    ELSE declaration[1][1] + SumOfProbabilities(Tail(declaration))

\* C4: AbstractAncestryStrategy.apply_strategy raises whenever the
\* probabilities of the declaration of the hook do not sum to 1.0 (2 halves).
C4_SumEnforced ==
    (op = "reproduce" /\ SumOfProbabilities(trace[1].declared) # 2)
      => IsRaise(ancestry)

RECURSIVE Kept(_, _, _)

\* every node of the template tree t whose flag is false has the same value in
\* the result tree r
Kept(flag, t, r) ==
    IF ~IsAllele(t) THEN TRUE
    ELSE /\ IsAllele(r)
         /\ ~t[flag] => ValueOf(r) = ValueOf(t)
         /\ \A k \in DOMAIN t.metadata :
              k \in DOMAIN r.metadata /\ Kept(flag, t.metadata[k], r.metadata[k])

GatedBy(flag) ==
    /\ \A i \in DOMAIN applied.calls : applied.calls[i].template[flag]
    /\ IsReturn(returned) =>
         \A n \in DOMAIN my_genome.alleles :
            Kept(flag, my_genome.alleles[n], returned.value.alleles[n])

\* C5: a crossbreeding strategy calls its hook only at nodes whose
\* can_crossbreed flag is true and a mutation strategy only at nodes whose
\* can_mutate flag is true; a node whose flag is false keeps the value it has
\* in the template genome.
C5_HookOnlyWhereFlagged ==
    /\ op = "crossbreed" => GatedBy("can_crossbreed")
    /\ op = "mutate" => GatedBy("can_mutate")

\* C6: at every node the mutation hook is entered with one allele per
\* population member, in population order, the mutatee's own allele (the last
\* source) not among them.
C6_MutateeStripped ==
    op = "mutate" =>
      \A i \in DOMAIN applied.calls :
         applied.calls[i].received =
            Some(SubSeq(applied.calls[i].sources, 1, Len(population)))

\* C10: the genome-level walk and the genome-level synthesis raise when the
\* genomes do not all have the same hyperparameter names, before any handler
\* call.
C10_NameSetsMustAgree ==
    (/\ op \in {"walk_genomes", "synthesize_genomes"}
     /\ \E i, j \in DOMAIN population :
           DOMAIN population[i].alleles # DOMAIN population[j].alleles)
      => /\ IsRaise(returned)
         /\ returned.exc = "ValueError"
         /\ applied.calls = <<>>

\* a synthesis for a member of a population in which the second genome holds
\* a name the first lacks
C10_Witness ==
    /\ op = "synthesize_genomes"
    /\ ~Outsider(my_genome, population)
    /\ Len(population) = 2
    /\ DOMAIN population[1].alleles = {"lr"}
    /\ DOMAIN population[2].alleles = {"lr", "wd"}
    /\ IsRaise(returned)

(***************************************************************************)
(* Properties of the tree algorithms                                       *)
(***************************************************************************)
RECURSIVE SameSchema(_, _)

\* r has the domain, the flags and the metadata keys of t at every node
SameSchema(r, t) ==
    IF ~IsAllele(t) \/ ~IsAllele(r) THEN IsAllele(r) = IsAllele(t)
    ELSE /\ r.domain = t.domain
         /\ r.can_mutate = t.can_mutate
         /\ r.can_crossbreed = t.can_crossbreed
         /\ DOMAIN r.metadata = DOMAIN t.metadata
         /\ \A k \in DOMAIN t.metadata : SameSchema(r.metadata[k], t.metadata[k])

\* C7: whatever the handler returns, the tree a synthesis returns has the
\* domain, the flags and the metadata key set of the template tree at every
\* node.
C7_TemplateSchemaKept ==
    (synth # Pending /\ IsAllele(synth.node))
      => SameSchema(synth.node, alleles[template_idx])

RECURSIVE SchemaDiffers(_)

\* some corresponding allele nodes of the trees differ in domain or in a flag
SchemaDiffers(nodes) ==
    /\ \A j \in DOMAIN nodes : IsAllele(nodes[j])
    /\ \/ \E j \in DOMAIN nodes :
             \/ nodes[j].domain # nodes[1].domain
             \/ nodes[j].can_mutate # nodes[1].can_mutate
             \/ nodes[j].can_crossbreed # nodes[1].can_crossbreed
       \/ \E k \in DOMAIN nodes[1].metadata :
             /\ \A j \in DOMAIN nodes : k \in DOMAIN nodes[j].metadata
             /\ SchemaDiffers([j \in DOMAIN nodes |-> nodes[j].metadata[k]])

\* C8: a synthesis over sources that differ in domain, can_mutate or
\* can_crossbreed at some corresponding node, at the top or nested in
\* metadata, raises and returns no tree.
C8_SchemaMismatchRaises ==
    (synth # Pending /\ SchemaDiffers(alleles)) => IsRaise(synth.node)

\* the sources agree at the top and differ in a flag of a nested allele
C8_Witness ==
    /\ synth # Pending
    /\ template_idx > 0
    /\ Len(alleles) = 2
    /\ alleles[1].domain = alleles[2].domain
    /\ alleles[1].can_mutate = alleles[2].can_mutate
    /\ alleles[1].can_crossbreed = alleles[2].can_crossbreed
    /\ SchemaDiffers(alleles)
    /\ IsRaise(synth.node)

\* the trees differ at this node: in allele variant, or in the keys of their
\* metadata, or in a key that holds an allele in one and a raw value in another
DiffersHere(nodes) ==
    \/ \E j \in DOMAIN nodes : TypeOf(nodes[j]) # TypeOf(nodes[1])
    \/ \E j \in DOMAIN nodes : DOMAIN nodes[j].metadata # DOMAIN nodes[1].metadata
    \/ \E j \in DOMAIN nodes : \E k \in DOMAIN nodes[1].metadata :
          IsAllele(nodes[j].metadata[k]) # IsAllele(nodes[1].metadata[k])

RECURSIVE DiffersSomewhere(_)

DiffersSomewhere(nodes) ==
    \/ DiffersHere(nodes)
    \/ \E k \in DOMAIN nodes[1].metadata :
          /\ IsAllele(nodes[1].metadata[k])
          /\ DiffersSomewhere([j \in DOMAIN nodes |-> nodes[j].metadata[k]])

\* C9: a parallel walk raises whenever the trees differ at some corresponding
\* node in allele variant or in metadata shape; when they differ at the top,
\* it raises before any handler call.
C9_WalkRaisesOnMismatch ==
    walked # Pending =>
      /\ DiffersSomewhere(alleles) => walked.exc # None
      /\ DiffersHere(alleles) => walked.calls = <<>>

(***************************************************************************)
(* The methods of Genome, called one at a time on a genome of the caller   *)
(***************************************************************************)
\* a variant of the next definition that keeps the identifier
with_alleles_SameId(self, fresh, genome_alleles) ==
    Genome_with_overrides(self, fresh, None, Some(genome_alleles), None, None)

with_alleles(self, fresh, genome_alleles) ==
    Genome_with_overrides(self, fresh, Some(fresh), Some(genome_alleles), None, None)

\* _ALLELE_TYPE_REGISTRY[allele_type](value, **allele_kwargs), for the type
\* keys the model uses; an unknown key is a KeyError
NewAllele(value, allele_type, domain) ==
    CASE allele_type = "float" -> FloatAllele(value, domain, TRUE, TRUE, EmptyDict)
      [] allele_type = "int"   -> IntAllele(value, domain, TRUE, TRUE, EmptyDict)
      [] OTHER                 -> Raise("KeyError")

\* the end of add_hyperparameter, new_allele being the allele built
AddBuilt(self, fresh, name, new_allele) ==
    IF IsRaise(new_allele) THEN new_allele
    ELSE Return(Genome_with_overrides(
                    self, fresh, Some(fresh),
                    Some(DictUpdate(self.alleles, [k \in {name} |-> new_allele])),
                    None, None))

add_hyperparameter(self, fresh, name, value, allele_type, domain) ==
    AddBuilt(self, fresh, name, NewAllele(value, allele_type, domain))

set_fitness(self, fresh, value, new_uuid) ==
    IF new_uuid
    THEN Genome_with_overrides(self, fresh, Some(fresh), None, None, Some(value))
    ELSE Genome_with_overrides(self, fresh, None, None, None, Some(value))

\* a function defined as def f(allele)
AlleleFunction(fn) == [fn |-> fn, params |-> <<"allele">>]

\* the closure adapted_handler(template, sources, **handler_kwargs) of
\* update_alleles, which calls handler(template, **handler_kwargs)
UpdateAdapter(h) ==
    [fn |-> "update_adapter", hook |-> h, params |-> <<"template", "sources">>]

update_alleles(self, h, predicate, kwargs, fresh) ==
    synthesize_genomes(self, <<self>>, UpdateAdapter(h), predicate, kwargs, fresh)

GenomeInit ==
    /\ TreeIdle
    /\ UnitIdle
    /\ population = <<>>
    /\ my_genome \in GenomePool(1, 1)
    /\ op = "none"
    /\ pc = "start"
    /\ ancestry = Pending
    /\ offspring = Pending
    /\ mutated_offspring = Pending
    /\ returned = Pending
    /\ applied = GenomeOut(Pending, <<>>)
    /\ trace = <<>>
    /\ next_id = 2

\* what every method call leaves alone
MethodFrame ==
    /\ pc' = "called"
    /\ next_id' = next_id + 1
    /\ UNCHANGED <<treeVars, held, outcome, data, strategy, population,
                   my_genome, ancestry, offspring, mutated_offspring, trace>>

DoWithOverrides ==
    /\ op = "none"
    /\ \E uuid \in {None, Some(1), Some(7)}, p \in {None, Some(EmptyDict)},
          parents \in {None, Some(<<<<2, 5>>>>)}, fitness \in {None, Some(6)} :
         /\ called' = [uuid |-> uuid, alleles |-> p, parents |-> parents,
                       fitness |-> fitness]
         /\ returned' = Return(Genome_with_overrides(my_genome, next_id, uuid, p,
                                                     parents, fitness))
    /\ op' = "with_overrides"
    /\ UNCHANGED applied
    /\ MethodFrame

DoWithAlleles ==
    /\ op = "none"
    /\ \E p \in AllelePackages :
         /\ called' = [alleles |-> p]
         /\ returned' = Return(with_alleles(my_genome, next_id, p))
    /\ op' = "with_alleles"
    /\ UNCHANGED applied
    /\ MethodFrame

DoAddHyperparameter ==
    /\ op = "none"
    /\ \E name \in {"lr", "wd"}, value \in {2, 9},
          allele_type \in {"float", "int", "complex"},
          domain \in {Unbounded, ZeroToThree} :
         /\ called' = [name |-> name, value |-> value, allele_type |-> allele_type,
                       domain |-> domain]
         /\ returned' = add_hyperparameter(my_genome, next_id, name, value,
                                           allele_type, domain)
    /\ op' = "add_hyperparameter"
    /\ UNCHANGED applied
    /\ MethodFrame

DoWithAncestry ==
    /\ op = "none"
    /\ \E parents \in {<<>>, <<<<2, 1>>>>, <<<<1, 1>>, <<1, 5>>>>} :
         /\ called' = [parents |-> parents]
         /\ returned' = Return(with_ancestry(my_genome, next_id, parents))
    /\ op' = "with_ancestry"
    /\ UNCHANGED applied
    /\ MethodFrame

DoSetFitness ==
    /\ op = "none"
    /\ \E value \in {0, 6}, new_uuid \in BOOLEAN :
         /\ called' = [value |-> value, new_uuid |-> new_uuid]
         /\ returned' = Return(set_fitness(my_genome, next_id, value, new_uuid))
    /\ op' = "set_fitness"
    /\ UNCHANGED applied
    /\ MethodFrame

DoUpdateAlleles ==
    /\ op = "none"
    /\ \E body \in {"keep", "new_domain"}, predicate \in Predicates :
         /\ called' = [handler |-> body, predicate |-> predicate]
         /\ applied' = update_alleles(my_genome, AlleleFunction(body), predicate,
                                      EmptyDict, next_id)
    /\ returned' = applied'.out
    /\ op' = "update_alleles"
    /\ MethodFrame

DoSynthesizeNewAlleles ==
    /\ op = "none"
    /\ \E body \in {"keep", "take_last"}, predicate \in Predicates :
         /\ called' = [handler |-> body, predicate |-> predicate]
         /\ applied' = synthesize_new_alleles(my_genome, <<my_genome>>,
                                              Function(body),
                                              [predicate |-> predicate], next_id)
    /\ returned' = applied'.out
    /\ op' = "synthesize_new_alleles"
    /\ MethodFrame

(***************************************************************************)
(* Strategy setup                                                          *)
(***************************************************************************)
\* the handle_setup hooks: the default of AbstractStrategy, which returns the
\* allele, and that of a strategy with metalearning, which injects a
\* meta-parameter allele into the metadata
SetupBodies == {"keep", "inject"}

\* the default distribution index 15.0
DefaultEta == 30

handle_setup(hook, setup_allele) ==
    IF hook = "keep" THEN setup_allele
    ELSE with_metadata(setup_allele, [eta |-> SBXEta(DefaultEta, TRUE)])

\* a variant of the next definition that never calls the hook
setup_genome_NoHook(hook, genome, fresh) ==
    GenomeOut(Return(with_alleles(genome, fresh, genome.alleles)), <<>>)

\* AbstractStrategy.setup_genome: the genome returned and the alleles the
\* hook was called with, in order
setup_genome(hook, genome, fresh) ==
    GenomeOut(Return(with_alleles(genome, fresh,
                                  [n \in DOMAIN genome.alleles |->
                                     handle_setup(hook, genome.alleles[n])])),
              [i \in DOMAIN NamesOf(genome) |-> genome.alleles[NamesOf(genome)[i]]])

\* the strategies of the orchestrator in the order its setup calls them
SetupOrder == <<"ancestry", "crossbreeding", "mutation">>

RECURSIVE SetupChain(_, _, _, _, _)

SetupStep(hooks, i, genome, fresh, done, step) ==
    SetupChain(hooks, i + 1, step.out.value, fresh + 1,
               Append(done, [step |-> SetupOrder[i], hook |-> hooks[i],
                             genome |-> genome, calls |-> step.calls,
                             out |-> step.out.value]))

\* StrategyOrchestrator.setup_genome: the setup calls made, each with the
\* genome it received and the genome it returned
SetupChain(hooks, i, genome, fresh, done) ==
    IF i > Len(hooks) THEN done
    ELSE SetupStep(hooks, i, genome, fresh, done, setup_genome(hooks[i], genome, fresh))

\* strategy.setup_genome(my_genome)
DoSetupGenome ==
    /\ op = "none"
    /\ \E hook \in SetupBodies :
         /\ called' = [hook |-> hook]
         /\ applied' = setup_genome(hook, my_genome, next_id)
         /\ returned' = applied'.out
    /\ op' = "setup_genome"
    /\ MethodFrame

\* orchestrator.setup_genome(my_genome)
DoOrchestratorSetup ==
    /\ op = "none"
    /\ \E ha \in SetupBodies, hc \in SetupBodies, hm \in SetupBodies :
         /\ called' = [hooks |-> <<ha, hc, hm>>]
         /\ trace' = SetupChain(<<ha, hc, hm>>, 1, my_genome, next_id, <<>>)
         /\ returned' = Return(trace'[Len(trace')].out)
    /\ op' = "orchestrator_setup"
    /\ pc' = "called"
    /\ next_id' = next_id + Len(SetupOrder)
    /\ UNCHANGED <<treeVars, held, outcome, data, strategy, population,
                   my_genome, ancestry, offspring, mutated_offspring, applied>>

GenomeNext ==
    \/ DoSetupGenome
    \/ DoOrchestratorSetup
    \/ DoWithOverrides
    \/ DoWithAlleles
    \/ DoAddHyperparameter
    \/ DoWithAncestry
    \/ DoSetFitness
    \/ DoUpdateAlleles
    \/ DoSynthesizeNewAlleles

SpecGenome == GenomeInit /\ [][GenomeNext]_vars

\* C11: with_alleles, add_hyperparameter, with_ancestry, update_alleles and
\* synthesize_new_alleles return a genome whose identifier differs from the
\* receiver's; with_overrides without an identifier and set_fitness with its
\* default arguments return a genome with the receiver's identifier.
C11_IdentifierRules ==
    /\ (/\ op \in {"with_alleles", "add_hyperparameter", "with_ancestry",
                   "update_alleles", "synthesize_new_alleles"}
        /\ IsReturn(returned))
         => returned.value.uuid # my_genome.uuid
    /\ (op = "with_overrides" /\ called.uuid = None)
         => returned.value.uuid = my_genome.uuid
    /\ (op = "set_fitness" /\ ~called.new_uuid)
         => returned.value.uuid = my_genome.uuid

\* with_alleles returned for a genome that had hyperparameters, a fitness and
\* an ancestry
C11_Witness ==
    /\ op = "with_alleles"
    /\ DOMAIN my_genome.alleles = {"lr"}
    /\ my_genome.parents # None
    /\ IsReturn(returned)
    /\ returned.value.fitness = my_genome.fitness

RECURSIVE SameValues(_, _)

\* r holds the value of t at every node
SameValues(t, r) ==
    IF ~IsAllele(t) THEN r = t
    ELSE /\ IsAllele(r)
         /\ r.value = t.value
         /\ DOMAIN r.metadata = DOMAIN t.metadata
         /\ \A k \in DOMAIN t.metadata : SameValues(t.metadata[k], r.metadata[k])

\* C12: crossbreeding or mutation with a hook that returns its template
\* unchanged, applied to a genome and a population of genomes with the same
\* alleles, yields a genome with the template genome's value at every node,
\* a new identifier, no fitness and no ancestry.
C12_IdentityHook ==
    (/\ op \in {"crossbreed", "mutate"}
     /\ trace[1].hook = "keep"
     /\ op = "crossbreed" => ~Outsider(my_genome, population)
     /\ \A i \in DOMAIN population : population[i].alleles = my_genome.alleles)
      => /\ IsReturn(returned)
         /\ DOMAIN returned.value.alleles = DOMAIN my_genome.alleles
         /\ \A n \in DOMAIN my_genome.alleles :
               SameValues(my_genome.alleles[n], returned.value.alleles[n])
         /\ returned.value.uuid # my_genome.uuid
         /\ returned.value.fitness = None
         /\ returned.value.parents = None

(***************************************************************************)
(* Properties of the parallel walk                                         *)
(***************************************************************************)
RECURSIVE PostOrder(_, _, _)
RECURSIVE PostOrderFrom(_, _, _, _)

\* the values of the nodes of tree t that pass the filter, every node after
\* the allele-valued entries of its metadata, these taken key by key in
\* lexical order
PostOrderFrom(t, i, inc_mutate, inc_crossbreed) ==
    IF i > Len(KeyOrder) THEN <<>>
    ELSE (IF KeyOrder[i] \in DOMAIN t.metadata /\ IsAllele(t.metadata[KeyOrder[i]])
          THEN PostOrder(t.metadata[KeyOrder[i]], inc_mutate, inc_crossbreed)
          ELSE <<>>)
         \o PostOrderFrom(t, i + 1, inc_mutate, inc_crossbreed)

PostOrder(t, inc_mutate, inc_crossbreed) ==
    PostOrderFrom(t, 1, inc_mutate, inc_crossbreed)
    \o (IF _should_include_node(t, inc_mutate, inc_crossbreed)
        THEN <<ValueOf(t)>> ELSE <<>>)

IsPrefix(s, t) == Len(s) <= Len(t) /\ \A i \in DOMAIN s : s[i] = t[i]

\* the value of the first tree's node at each handler call of the walk
SeenByHandler == [i \in DOMAIN walked.calls |-> ValueOf(walked.calls[i][1])]

\* C13: a parallel walk calls the handler for the allele-valued metadata
\* children of a node before the node itself, the children in lexical order
\* of their keys: the calls made follow the children-first, key-ordered
\* traversal of the first tree and cover it whole when the walk ends without
\* an exception; a parent of value 1.0 with children 2.0 under "a" and 3.0
\* under "b" is seen as 2.0, 3.0, 1.0.
C13_ChildrenFirstInKeyOrder ==
    walked # Pending =>
        LET order == PostOrder(alleles[1], include_can_mutate, include_can_crossbreed)
        IN  /\ IsPrefix(SeenByHandler, order)
            /\ walked.exc = None => SeenByHandler = order

C13_Witness ==
    /\ walked # Pending
    /\ alleles[1] = Node(FALSE, [a |-> Leaf(4, TRUE, TRUE), b |-> Leaf(6, TRUE, TRUE)])
    /\ walked.exc = None
    /\ SeenByHandler = <<4, 6, 2>>

(***************************************************************************)
(* Allele-level specification: a caller constructs one allele and then     *)
(* calls one of its methods.                                               *)
(***************************************************************************)
Numbers == (-3)..MaxValue

BoundPool == {None, Some(-2), Some(0), Some(1), Some(3)}

\* domain arguments: dicts with both keys, dicts lacking a key, and None
DomainArguments ==
    {[min |-> lo, max |-> hi] : lo \in BoundPool, hi \in BoundPool}
    \cup {[min |-> Some(1)], [max |-> Some(3)], EmptyDict, PyNone}

StringDomains == {None, Some({"adam", "sgd"}), Some({})}

PyValues ==
    {PyBool(TRUE), PyBool(FALSE), PyInt(0), PyInt(1), PyInt(2),
     PyStr("adam"), PyStr("lion")}

MetadataPool ==
    { EmptyDict,
      [a |-> Leaf(4, TRUE, TRUE), b |-> Raw(5)],
      [a |-> IntAllele(3, PyNone, TRUE, FALSE, [b |-> Leaf(6, TRUE, TRUE)])] }

NumericClasses == {"FloatAllele", "IntAllele", "LogFloatAllele"}

AlleleInit == TreeIdle /\ GenomeIdle /\ UnitIdle

\* cls(value, domain, can_mutate, True, metadata) for a numeric class
NewNumeric ==
    /\ called = Pending
    /\ \E cls \in NumericClasses, v \in Numbers, d \in DomainArguments,
          m \in MetadataPool, cm \in BOOLEAN :
         /\ called' = [op |-> "__init__", cls |-> cls, value |-> v, domain |-> d]
         /\ outcome' = CASE cls = "FloatAllele" -> FloatAllele(v, d, cm, TRUE, m)
                         [] cls = "IntAllele" -> IntAllele(v, d, cm, TRUE, m)
                         [] OTHER -> LogFloatAllele(v, d, cm, TRUE, m)
         /\ held' = IF IsAllele(outcome') THEN outcome' ELSE Pending
    /\ UNCHANGED <<treeVars, genomeVars, data, strategy>>

\* BoolAllele(value, metadata=metadata)
NewBool ==
    /\ called = Pending
    /\ \E v \in PyValues, m \in MetadataPool :
         /\ called' = [op |-> "__init__", cls |-> "BoolAllele", value |-> v]
         /\ outcome' = BoolAllele(v, TRUE, TRUE, m)
         /\ held' = IF IsAllele(outcome') THEN outcome' ELSE Pending
    /\ UNCHANGED <<treeVars, genomeVars, data, strategy>>

\* StringAllele(value, domain, metadata=metadata)
NewString ==
    /\ called = Pending
    /\ \E v \in PyValues, d \in StringDomains, m \in MetadataPool :
         /\ called' = [op |-> "__init__", cls |-> "StringAllele", value |-> v,
                       domain |-> d]
         /\ outcome' = StringAllele(v, d, TRUE, TRUE, m)
         /\ held' = IF IsAllele(outcome') THEN outcome' ELSE Pending
    /\ UNCHANGED <<treeVars, genomeVars, data, strategy>>

\* held.with_value(v)
WithValue ==
    /\ held # Pending /\ called.op = "__init__"
    /\ \E v \in (IF held.type \in NumericClasses THEN Numbers ELSE PyValues) :
         /\ called' = [op |-> "with_value", value |-> v]
         /\ outcome' = with_value(held, v)
    /\ UNCHANGED <<treeVars, genomeVars, data, strategy, held>>

\* held.with_overrides(domain=d)
WithDomain ==
    /\ held # Pending /\ called.op = "__init__"
    /\ \E d \in (IF held.type \in NumericClasses THEN DomainArguments
                 ELSE StringDomains) :
         /\ called' = [op |-> "with_overrides", domain |-> d]
         /\ outcome' = with_overrides(held, [domain |-> d])
    /\ UNCHANGED <<treeVars, genomeVars, data, strategy, held>>

\* held.flatten()
Flatten ==
    /\ held # Pending /\ called.op = "__init__"
    /\ called' = [op |-> "flatten"]
    /\ outcome' = flatten(held)
    /\ UNCHANGED <<treeVars, genomeVars, data, strategy, held>>

\* the allele-valued entries of a metadata dict
NestedAlleles(metadata) ==
    [k \in {j \in DOMAIN metadata : IsAllele(metadata[j])} |-> metadata[k]]

\* flat.unflatten(resolved), flat the result of held.flatten() and resolved
\* the nested alleles of held
Unflatten ==
    /\ called # Pending /\ called.op = "flatten"
    /\ called' = [op |-> "unflatten", flat |-> outcome]
    /\ outcome' = unflatten(outcome, NestedAlleles(held.metadata))
    /\ UNCHANGED <<treeVars, genomeVars, data, strategy, held>>

AlleleNext ==
    \/ NewNumeric
    \/ NewBool
    \/ NewString
    \/ WithValue
    \/ WithDomain
    \/ Flatten
    \/ Unflatten

SpecAllele == AlleleInit /\ [][AlleleNext]_vars

(***************************************************************************)
(* Properties of the alleles                                               *)
(***************************************************************************)
\* flat is allele a with every allele-valued metadata entry replaced by the
\* entry's value, and nothing else changed
FlatOf(a, flat) ==
    /\ IsAllele(flat)
    /\ flat.type = a.type
    /\ flat.value = a.value
    /\ flat.domain = a.domain
    /\ flat.can_mutate = a.can_mutate
    /\ flat.can_crossbreed = a.can_crossbreed
    /\ DOMAIN flat.metadata = DOMAIN a.metadata
    /\ \A k \in DOMAIN a.metadata :
          flat.metadata[k] = IF IsAllele(a.metadata[k])
                             THEN Raw(ValueOf(a.metadata[k]))
                             ELSE a.metadata[k]

\* C14: flatten(a) is a with every allele-valued metadata entry replaced by
\* that entry's plain value, one level only, value, domain and flags kept;
\* unflatten of flatten(a) with a's nested alleles has a's nested alleles,
\* with their values, back in its metadata.
C14_FlattenUnflatten ==
    /\ (called # Pending /\ called.op = "flatten") => FlatOf(held, outcome)
    /\ (called # Pending /\ called.op = "unflatten") =>
          /\ FlatOf(held, called.flat)
          /\ IsAllele(outcome)
          /\ DOMAIN outcome.metadata = DOMAIN held.metadata
          /\ \A k \in DOMAIN held.metadata :
                outcome.metadata[k] = held.metadata[k]

C14_Witness ==
    /\ called # Pending /\ called.op = "unflatten"
    /\ \E k \in DOMAIN held.metadata :
          /\ IsAllele(held.metadata[k])
          /\ held.metadata[k].type = "IntAllele"
          /\ called.flat.metadata[k] = Raw(4)
          /\ outcome.metadata[k].value = 3

\* the domain an operation clamps against: the one passed, or the held one
DomainUsed ==
    IF "domain" \in DOMAIN called THEN NormalDomain(called.domain) ELSE held.domain

WellFormed(domain) ==
    domain.min # None /\ domain.max # None => The(domain.min) <= The(domain.max)

NumericCall ==
    /\ called # Pending
    /\ \/ called.op = "__init__" /\ called.cls \in NumericClasses
       \/ called.op = "with_value" /\ held.type \in NumericClasses

Validated(n) ==
    CASE n.type = "LogFloatAllele" -> n.domain.min # None /\ The(n.domain.min) > 0
      [] n.type = "StringAllele" -> n.value.py = "str" /\ n.value.s \in n.domain
      [] n.type = "BoolAllele" -> \E d \in BoolDomain : PyEq(n.value, d)
      [] OTHER -> TRUE

\* what the latest call asked for breaks the rules of its class
AsksInvalid ==
    LET cls == IF called.op = "__init__" THEN called.cls ELSE held.type
    IN  CASE cls = "LogFloatAllele" ->
               DomainUsed.min = None \/ The(DomainUsed.min) <= 0
          [] cls = "StringAllele" ->
               LET d == IF "domain" \in DOMAIN called THEN called.domain
                        ELSE Some(held.domain)
                   v == IF "value" \in DOMAIN called THEN called.value ELSE held.value
               IN  d = None \/ v.py # "str" \/ v.s \notin The(d)
          [] cls = "BoolAllele" ->
               "value" \in DOMAIN called
               /\ ~\E d \in BoolDomain : PyEq(called.value, d)
          [] OTHER -> FALSE

\* C16: a log allele with a missing, zero or negative minimum, a string
\* allele with a value outside its set or without a set, and a boolean allele
\* with a value that equals neither True nor False are rejected with
\* ValueError at construction and at every replacement of the value or the
\* domain; every allele that exists obeys the rules of its class, and string
\* and boolean alleles hold the value as it was passed.
C16_InvalidIsRejected ==
    /\ held # Pending => Validated(held)
    /\ (called # Pending /\ called.op \in {"__init__", "with_value", "with_overrides"}) =>
          /\ AsksInvalid => outcome = Raise("ValueError")
          /\ IsAllele(outcome) =>
                /\ Validated(outcome)
                /\ (outcome.type \in {"StringAllele", "BoolAllele"}
                      /\ "value" \in DOMAIN called) => outcome.value = called.value

C16_Witness ==
    /\ called # Pending /\ called.op = "with_overrides"
    /\ held # Pending /\ held.type = "LogFloatAllele"
    /\ NormalDomain(called.domain).min = Some(0)
    /\ outcome = Raise("ValueError")

(***************************************************************************)
(* Serialization.  A serialized allele is a dict (kind "dict") with the    *)
(* class name, the fields of serialize_subclass and the serialized         *)
(* metadata; str(uuid) is a record holding the hex digits of the UUID.     *)
(***************************************************************************)
RECURSIVE ListOf(_)

\* list(a_set)
ListOf(S) ==
    IF S = {} THEN <<>>
    ELSE LET x == CHOOSE y \in S : TRUE IN <<x>> \o ListOf(S \ {x})

\* set(a_list)
SetOf(l) == {l[i] : i \in DOMAIN l}

\* str(uuid) and UUID(text)
UuidStr(uuid) == [hex |-> uuid]

UUID(text) == text.hex

\* AbstractAllele._registry: every subclass registers under its class name
\* when it is defined
Registry ==
    {"FloatAllele", "IntAllele", "LogFloatAllele", "BoolAllele", "StringAllele",
     "SBXEta"}

\* the parameters of the constructor of a registered class
Constructor(cls) ==
    CASE cls = "SBXEta" -> [fn |-> cls, params |-> <<"base_eta", "can_change">>]
      [] cls = "BoolAllele" ->
           [fn |-> cls,
            params |-> <<"value", "can_mutate", "can_crossbreed", "metadata">>]
      [] OTHER ->
           [fn |-> cls,
            params |-> <<"value", "domain", "can_mutate", "can_crossbreed", "metadata">>]

\* the fields serialize_subclass adds; the integer allele gives its raw float,
\* the string allele its domain as a list, the boolean allele no domain
serialize_subclass(a, serialized_metadata) ==
    CASE a.type = "BoolAllele" ->
           [kind |-> "dict", type |-> a.type, value |-> a.value,
            can_mutate |-> a.can_mutate, can_crossbreed |-> a.can_crossbreed,
            metadata |-> serialized_metadata]
      [] a.type = "StringAllele" ->
           [kind |-> "dict", type |-> a.type, value |-> a.value,
            domain |-> ListOf(a.domain),
            can_mutate |-> a.can_mutate, can_crossbreed |-> a.can_crossbreed,
            metadata |-> serialized_metadata]
      [] OTHER ->
           [kind |-> "dict", type |-> a.type, value |-> a.value,
            domain |-> a.domain,
            can_mutate |-> a.can_mutate, can_crossbreed |-> a.can_crossbreed,
            metadata |-> serialized_metadata]

RECURSIVE serialize(_)

serialize(a) ==
    serialize_subclass(a, [k \in DOMAIN a.metadata |->
                             IF IsAllele(a.metadata[k]) THEN serialize(a.metadata[k])
                             ELSE a.metadata[k]])

\* cls(value=..., domain=..., can_mutate=..., can_crossbreed=...,
\* metadata=...) of deserialize_subclass, cls the class found in the registry
deserialize_subclass(d, metadata) ==
    IF BindFails(Constructor(d.type), 0, (DOMAIN d) \ {"kind", "type"})
    THEN Raise("TypeError")
    ELSE CASE d.type = "BoolAllele" ->
                BoolAllele(d.value, d.can_mutate, d.can_crossbreed, metadata)
           [] d.type = "StringAllele" ->
                StringAllele(d.value, Some(SetOf(d.domain)), d.can_mutate,
                             d.can_crossbreed, metadata)
           [] d.type = "IntAllele" ->
                IntAllele(d.value, d.domain, d.can_mutate, d.can_crossbreed, metadata)
           [] d.type = "LogFloatAllele" ->
                LogFloatAllele(d.value, d.domain, d.can_mutate, d.can_crossbreed,
                               metadata)
           [] OTHER ->
                FloatAllele(d.value, d.domain, d.can_mutate, d.can_crossbreed, metadata)

\* the rest of deserialize once the metadata entries are deserialized
DeserializeWith(d, entries) ==
    IF \E k \in DOMAIN entries : IsRaise(entries[k])
    THEN entries[CHOOSE k \in DOMAIN entries : IsRaise(entries[k])]
    ELSE deserialize_subclass(d, entries)

RECURSIVE deserialize(_)

\* AbstractAllele.deserialize: an allele, or the exception raised
deserialize(d) ==
    IF d.type \notin Registry THEN Raise("ValueError")
    ELSE DeserializeWith(d, [k \in DOMAIN d.metadata |->
                               IF d.metadata[k].kind = "dict"
                               THEN deserialize(d.metadata[k])
                               ELSE d.metadata[k]])

Genome_serialize(self) ==
    [uuid    |-> UuidStr(self.uuid),
     alleles |-> [n \in DOMAIN self.alleles |-> serialize(self.alleles[n])],
     parents |-> IF self.parents # None
                 THEN Some([i \in DOMAIN The(self.parents) |->
                              <<The(self.parents)[i][1],
                                UuidStr(The(self.parents)[i][2])>>])
                 ELSE None,
     fitness |-> self.fitness]

\* the end of Genome.deserialize, genome_alleles being the deserialized alleles
GenomeOf(d, fresh, genome_alleles) ==
    IF \E n \in DOMAIN genome_alleles : IsRaise(genome_alleles[n])
    THEN genome_alleles[CHOOSE n \in DOMAIN genome_alleles : IsRaise(genome_alleles[n])]
    ELSE Return(Genome(fresh, UUID(d.uuid), genome_alleles,
                       IF d.parents # None
                       THEN Some([i \in DOMAIN The(d.parents) |->
                                    <<The(d.parents)[i][1], UUID(The(d.parents)[i][2])>>])
                       ELSE None,
                       d.fitness))

Genome_deserialize(d, fresh) ==
    GenomeOf(d, fresh, [n \in DOMAIN d.alleles |-> deserialize(d.alleles[n])])

(***************************************************************************)
(* Serialization specification: a caller holds a genome, serializes it and *)
(* deserializes the dict.                                                  *)
(***************************************************************************)
SerialClasses == Registry

\* an allele of class cls with value v and the given metadata; the
\* meta-parameter allele takes no metadata
Sample(cls, v, metadata) ==
    CASE cls = "FloatAllele" ->
           FloatAllele(v, [min |-> Some(0)], TRUE, FALSE, metadata)
      [] cls = "IntAllele" -> IntAllele(v, ZeroToThree, TRUE, TRUE, metadata)
      [] cls = "LogFloatAllele" ->
           LogFloatAllele(v, [min |-> Some(1), max |-> Some(8)], FALSE, TRUE, metadata)
      [] cls = "BoolAllele" -> BoolAllele(PyBool(v > 2), TRUE, TRUE, metadata)
      [] cls = "StringAllele" ->
           StringAllele(PyStr("adam"), Some({"adam", "sgd"}), TRUE, TRUE, metadata)
      [] OTHER -> SBXEta(v + 20, TRUE)

\* the metadata shapes: none, a raw value, an allele of class cls, an allele
\* of class cls under an allele
Shaped(shape, cls, v) ==
    CASE shape = "empty"  -> EmptyDict
      [] shape = "raw"    -> [a |-> Raw(5)]
      [] shape = "nested" -> [a |-> Sample(cls, v, EmptyDict), b |-> Raw(5)]
      [] OTHER -> [a |-> IntAllele(3, PyNone, TRUE, TRUE,
                                   [b |-> Sample(cls, v, EmptyDict)])]

SerialInit ==
    /\ TreeIdle
    /\ UnitIdle
    /\ population = <<>>
    /\ \E top \in SerialClasses, cls \in SerialClasses,
          shape \in {"empty", "raw", "nested", "deep"}, v \in {1, 3}, h \in Histories,
          two \in BOOLEAN :
         my_genome = Genome(1, 1,
                            IF two
                            THEN [lr |-> Sample(top, v, Shaped(shape, cls, v)),
                                  wd |-> Sample(cls, 3, EmptyDict)]
                            ELSE [lr |-> Sample(top, v, Shaped(shape, cls, v))],
                            h[2], h[1])
    /\ op = "none"
    /\ pc = "start"
    /\ ancestry = Pending
    /\ offspring = Pending
    /\ mutated_offspring = Pending
    /\ returned = Pending
    /\ applied = GenomeOut(Pending, <<>>)
    /\ trace = <<>>
    /\ next_id = 2

\* data = my_genome.serialize()
Serialize ==
    /\ op = "none"
    /\ op' = "serialize"
    /\ data' = Genome_serialize(my_genome)
    /\ UNCHANGED <<treeVars, held, called, outcome, strategy, population, my_genome,
                   pc, ancestry, offspring, mutated_offspring, returned, applied,
                   trace, next_id>>

\* Genome.deserialize(data)
Deserialize ==
    /\ op = "serialize"
    /\ op' = "deserialize"
    /\ returned' = Genome_deserialize(data, next_id)
    /\ next_id' = next_id + 1
    /\ UNCHANGED <<treeVars, held, called, outcome, strategy, population, my_genome,
                   pc, ancestry, offspring, mutated_offspring, applied, trace, data>>

SerialNext == Serialize \/ Deserialize

SpecSerial == SerialInit /\ [][SerialNext]_vars

\* C17: deserialize(serialize(g)) succeeds and gives a genome with g's
\* identifier, fitness and ancestry and, at every node, g's allele type,
\* stored value, domain, flags and metadata, for genomes of every allele
\* class, the meta-parameter alleles included.
C17_RoundTrip ==
    op = "deserialize" =>
        /\ IsReturn(returned)
        /\ returned.value.uuid = my_genome.uuid
        /\ returned.value.fitness = my_genome.fitness
        /\ returned.value.parents = my_genome.parents
        /\ returned.value.alleles = my_genome.alleles

(***************************************************************************)
(* Properties of the setup                                                 *)
(***************************************************************************)
RECURSIVE ValuesKept(_, _)

\* tree r has the value of tree t at every node of t
ValuesKept(t, r) ==
    IF ~IsAllele(t) THEN r = t
    ELSE /\ IsAllele(r)
         /\ r.type = t.type
         /\ r.value = t.value
         /\ \A k \in DOMAIN t.metadata :
               k \in DOMAIN r.metadata /\ ValuesKept(t.metadata[k], r.metadata[k])

\* the hook was called once with each top-level allele of genome and with
\* nothing else, and the genome returned has the values of genome
SetUp(genome, hook_calls, out) ==
    /\ Len(hook_calls) = Cardinality(DOMAIN genome.alleles)
    /\ \A n \in DOMAIN genome.alleles :
          Cardinality({i \in DOMAIN hook_calls : hook_calls[i] = genome.alleles[n]}) = 1
    /\ DOMAIN out.alleles = DOMAIN genome.alleles
    /\ \A n \in DOMAIN genome.alleles : ValuesKept(genome.alleles[n], out.alleles[n])

\* C18: the setup of a strategy calls the hook once for each top-level allele
\* of the genome and never for a nested one and leaves every allele value as
\* it was; the setup of the orchestrator runs the setups of the ancestry, the
\* crossbreeding and the mutation strategy in this order, each on the genome
\* the one before returned.
C18_SetupOncePerTopLevel ==
    /\ op = "setup_genome" =>
          /\ IsReturn(returned)
          /\ SetUp(my_genome, applied.calls, returned.value)
    /\ op = "orchestrator_setup" =>
          /\ [i \in DOMAIN trace |-> trace[i].step] = SetupOrder
          /\ [i \in DOMAIN trace |-> trace[i].hook] = called.hooks
          /\ trace[1].genome = my_genome
          /\ \A i \in 2..Len(trace) : trace[i].genome = trace[i - 1].out
          /\ \A i \in DOMAIN trace : SetUp(trace[i].genome, trace[i].calls, trace[i].out)
          /\ returned = Return(trace[3].out)

C18_Witness ==
    /\ op = "orchestrator_setup"
    /\ called.hooks = <<"keep", "inject", "keep">>
    /\ "wd" \in DOMAIN my_genome.alleles
    /\ Len(trace[2].calls) = 2
    /\ "eta" \in DOMAIN returned.value.alleles["wd"].metadata
    /\ "eta" \notin DOMAIN returned.value.alleles["wd"].metadata["a"].metadata
    /\ "eta" \in DOMAIN trace[3].calls[2].metadata

(***************************************************************************)
(* Concrete ancestry strategies.  Their probabilities are exact fractions  *)
(* <<numerator, denominator>> in lowest terms with a positive denominator; *)
(* fitness and temperature stay in halves.                                 *)
(***************************************************************************)
RECURSIVE Gcd(_, _)

Gcd(m, n) == IF n = 0 THEN m ELSE Gcd(n, m % n)

Abs(x) == IF x < 0 THEN -x ELSE x

\* n / d for d # 0
Frac(n, d) ==
    <<(IF d < 0 THEN -n ELSE n) \div Gcd(Abs(n), Abs(d)), Abs(d) \div Gcd(Abs(n), Abs(d))>>

FAdd(p, q) == Frac(p[1] * q[2] + q[1] * p[2], p[2] * q[2])

FLess(p, q) == p[1] * q[2] < q[1] * p[2]

RECURSIVE FSum(_)

\* sum(...) over a list of fractions
FSum(ps) == IF ps = <<>> THEN Frac(0, 1) ELSE FAdd(ps[1], FSum(Tail(ps)))

RECURSIVE Power(_, _)

Power(b, e) == IF e = 0 THEN 1 ELSE b * Power(b, e - 1)

\* the probabilities of a declaration, in order
ProbabilitiesOf(declaration) == [i \in DOMAIN declaration |-> declaration[i][1]]

RECURSIVE InsertByKey(_, _, _)

\* idx placed into the index list done, which is ordered by key, after every
\* index whose key is not larger
InsertByKey(done, idx, key) ==
    IF done = <<>> THEN <<idx>>
    ELSE IF key[idx] < key[done[1]] THEN <<idx>> \o done
    ELSE <<done[1]>> \o InsertByKey(Tail(done), idx, key)

RECURSIVE SortFrom(_, _, _)

SortFrom(done, i, key) ==
    IF i > Len(key) THEN done ELSE SortFrom(InsertByKey(done, i, key), i + 1, key)

\* a variant of the next definition that orders by descending key
sorted_Descending(key) == SortFrom(<<>>, 1, [i \in DOMAIN key |-> -key[i]])

\* sorted(range(len(key)), key=...): the positions 1..Len(key) ordered by
\* ascending key, equal keys in their original order
sorted(key) == SortFrom(<<>>, 1, key)

\* seq[:k] and seq[-k:] (k > 0) of Python, as sets of elements
Prefix(seq, k) ==
    {seq[i] : i \in 1..(IF k >= 0 THEN Min2(k, Len(seq)) ELSE Max2(Len(seq) + k, 0))}

Suffix(seq, k) == {seq[i] : i \in (Len(seq) - Min2(k, Len(seq)) + 1)..Len(seq)}

FitnessOf(genomes) == [i \in DOMAIN genomes |-> The(genomes[i].fitness)]

\* the constructors: the strategy, or the ValueError raised
TournamentSelection(tournament_size, num_tournaments) ==
    IF tournament_size < 2 THEN Raise("ValueError")
    ELSE [kind |-> "strategy", cls |-> "TournamentSelection",
          tournament_size |-> tournament_size, num_tournaments |-> num_tournaments]

EliteBreeds(thrive_count, die_count) ==
    [kind |-> "strategy", cls |-> "EliteBreeds",
     thrive_count |-> thrive_count, die_count |-> die_count]

RankSelection(selection_pressure) ==
    IF selection_pressure <= 0 THEN Raise("ValueError")
    ELSE [kind |-> "strategy", cls |-> "RankSelection",
          selection_pressure |-> selection_pressure]

BoltzmannSelection(temperature) ==
    IF temperature <= 0 THEN Raise("ValueError")
    ELSE [kind |-> "strategy", cls |-> "BoltzmannSelection", temperature |-> temperature]

TopN(n, inner) ==
    IF n < 1 THEN Raise("ValueError")
    ELSE IF IsRaise(inner) THEN inner
    ELSE [kind |-> "strategy", cls |-> "TopN", n |-> n, strategy |-> inner]

\* a variant of the next definition in which the largest fitness wins
Winner_Highest(tournament, fitness) ==
    tournament[CHOOSE i \in DOMAIN tournament :
                 \A j \in DOMAIN tournament : fitness[tournament[i]] >= fitness[tournament[j]]]

\* min(tournament, key=fitness): the first of the smallest
Winner(tournament, fitness) ==
    tournament[CHOOSE i \in DOMAIN tournament :
                 /\ \A j \in DOMAIN tournament : fitness[tournament[i]] <= fitness[tournament[j]]
                 /\ \A j \in 1..(i - 1) : fitness[tournament[j]] > fitness[tournament[i]]]

\* the declaration win_counts / num_tournaments for the winners of the rounds
TournamentDeclare(self, genomes, winners) ==
    Return([i \in DOMAIN genomes |->
              <<Frac(Cardinality({t \in DOMAIN winners : winners[t] = i}),
                     self.num_tournaments),
                genomes[i].uuid>>])

\* TournamentSelection.select_ancestry; picks[t][k] is the position _choose
\* returned for seat k of tournament t
TournamentSelect(self, genomes, picks) ==
    IF self.num_tournaments = 0 THEN Raise("ZeroDivisionError")
    ELSE TournamentDeclare(self, genomes,
                           [t \in DOMAIN picks |-> Winner(picks[t], FitnessOf(genomes))])

\* the loop of EliteBreeds.select_ancestry, thrive_set and die_set holding
\* positions of the population
EliteDeclare(self, genome, genomes, thrive_set, die_set) ==
    Return([i \in DOMAIN genomes |->
              <<IF ~\E j \in die_set : genomes[j].obj = genome.obj
                THEN (IF genomes[i].obj = genome.obj THEN Frac(1, 1) ELSE Frac(0, 1))
                ELSE (IF i \in thrive_set THEN Frac(1, self.thrive_count) ELSE Frac(0, 1)),
                genomes[i].uuid>>])

EliteSelect(self, genome, genomes) ==
    IF self.thrive_count + self.die_count >= Len(genomes) THEN Raise("ValueError")
    ELSE EliteDeclare(self, genome, genomes,
                      Prefix(sorted(FitnessOf(genomes)), self.thrive_count),
                      IF self.die_count > 0
                      THEN Suffix(sorted(FitnessOf(genomes)), self.die_count)
                      ELSE {})

\* w / total for every genome, weights by position of the population
Normalized(genomes, weights) ==
    IF FSum(weights) = Frac(0, 1) THEN Raise("ZeroDivisionError")
    ELSE Return([i \in DOMAIN genomes |->
                   <<Frac(weights[i][1] * FSum(weights)[2], weights[i][2] * FSum(weights)[1]),
                     genomes[i].uuid>>])

\* the position of i in the list order, counted from 0
IndexIn(order, i) == (CHOOSE k \in DOMAIN order : order[k] = i) - 1

\* RankSelection.select_ancestry: weight (n - rank) ** selection_pressure
RankSelect(self, genomes) ==
    Normalized(genomes,
               [i \in DOMAIN genomes |->
                  Frac(Power(Len(genomes) - IndexIn(sorted(FitnessOf(genomes)), i),
                             self.selection_pressure), 1)])

\* BoltzmannSelection.select_ancestry.  exp(-fitness / temperature) is
\* replaced by 4 ** (-fitness / temperature), a positive decreasing weight
\* that stays a fraction for the fitnesses and temperatures of the model
BoltzmannSelect(self, genomes) ==
    Normalized(genomes,
               [i \in DOMAIN genomes |->
                  Frac(1, Power(2, (2 * FitnessOf(genomes)[i]) \div self.temperature))])

\* a variant of the next definition that never renormalises
TopNClip_NoRenormalise(n, declared, clipped) == Return(clipped)

\* the declaration clipped to the n largest probabilities (ties to the lower
\* position) and divided by its total, unless the total is zero
TopNClip(n, declared, clipped) ==
    IF FSum(ProbabilitiesOf(clipped)) = Frac(0, 1) THEN Return(clipped)
    ELSE Return([i \in DOMAIN clipped |->
                   <<Frac(clipped[i][1][1] * FSum(ProbabilitiesOf(clipped))[2],
                          clipped[i][1][2] * FSum(ProbabilitiesOf(clipped))[1]),
                     clipped[i][2]>>])

\* TopN.select_ancestry, inner being what the wrapped strategy returned
TopNSelect(n, inner) ==
    IF IsRaise(inner) THEN inner
    ELSE TopNClip(n, inner.value,
                  [i \in DOMAIN inner.value |->
                     <<IF Cardinality({j \in DOMAIN inner.value :
                                         \/ FLess(inner.value[i][1], inner.value[j][1])
                                         \/ /\ inner.value[j][1] = inner.value[i][1]
                                            /\ j < i}) < n
                       THEN inner.value[i][1] ELSE Frac(0, 1),
                       inner.value[i][2]>>])

\* select_ancestry of the four plain strategies
PlainSelect(self, genome, genomes, picks) ==
    CASE self.cls = "TournamentSelection" -> TournamentSelect(self, genomes, picks)
      [] self.cls = "EliteBreeds" -> EliteSelect(self, genome, genomes)
      [] self.cls = "RankSelection" -> RankSelect(self, genomes)
      [] OTHER -> BoltzmannSelect(self, genomes)

select_ancestry(self, genome, genomes, picks) ==
    IF self.cls = "TopN"
    THEN TopNSelect(self.n, PlainSelect(self.strategy, genome, genomes, picks))
    ELSE PlainSelect(self, genome, genomes, picks)

\* the end of AbstractAncestryStrategy.apply_strategy for what the hook gave
Declared(genome, genomes, selected) ==
    IF IsRaise(selected) THEN selected
    ELSE AncestryApply(genome, genomes, selected.value)

(***************************************************************************)
(* Ancestry specification: a caller builds a strategy and applies it to a  *)
(* candidate of an evaluated population.                                   *)
(***************************************************************************)
Fitnesses == {2, 4}

FitPopulations ==
    UNION { { [i \in 1..n |-> Genome(i, i, EmptyDict, None, Some(f[i]))] :
                f \in [1..n -> Fitnesses] } : n \in 1..(MaxPop + 2) }

Counts == 0..2

AncestryInit ==
    /\ TreeIdle
    /\ UnitIdle
    /\ population \in FitPopulations
    /\ my_genome \in {population[i] : i \in DOMAIN population}
    /\ op = "none"
    /\ pc = "start"
    /\ ancestry = Pending
    /\ offspring = Pending
    /\ mutated_offspring = Pending
    /\ returned = Pending
    /\ applied = GenomeOut(Pending, <<>>)
    /\ trace = <<>>
    /\ next_id = 0

\* a strategy of class cls built from the numbers x and y
Built(cls, x, y) ==
    CASE cls = "TournamentSelection" -> TournamentSelection(x, y)
      [] cls = "EliteBreeds" -> EliteBreeds(x, y)
      [] cls = "RankSelection" -> RankSelection(x)
      [] OTHER -> BoltzmannSelection(2 * x)

PlainClasses == {"TournamentSelection", "EliteBreeds", "RankSelection", "BoltzmannSelection"}

\* the pairs of numbers a caller passes to the constructor of cls
Parameters(cls) ==
    IF cls = "TournamentSelection" THEN Counts \X ((-1)..1) ELSE Counts \X Counts

\* strategy = cls(...)
NewStrategy ==
    /\ strategy = Pending /\ outcome = Pending
    /\ \E cls \in PlainClasses : \E xy \in Parameters(cls) :
         /\ called' = [cls |-> cls, x |-> xy[1], y |-> xy[2]]
         /\ outcome' = Built(cls, xy[1], xy[2])
         /\ strategy' = IF IsRaise(outcome') THEN Pending ELSE outcome'
    /\ UNCHANGED <<treeVars, genomeVars, held, data>>

\* strategy = TopN(n, cls(...))
NewTopN ==
    /\ strategy = Pending /\ outcome = Pending
    /\ \E cls \in PlainClasses, n \in Counts : \E xy \in Parameters(cls) :
         /\ called' = [cls |-> "TopN", n |-> n, inner |-> cls, x |-> xy[1], y |-> xy[2]]
         /\ outcome' = TopN(n, Built(cls, xy[1], xy[2]))
         /\ strategy' = IF IsRaise(outcome') THEN Pending ELSE outcome'
    /\ UNCHANGED <<treeVars, genomeVars, held, data>>

\* the tournaments the strategy in use draws
Tournaments(self, n) ==
    IF self.cls = "TournamentSelection"
    THEN [1..self.num_tournaments -> [1..self.tournament_size -> 1..n]]
    ELSE {<<>>}

\* ancestry = strategy.apply_strategy(my_genome, population)
ApplyAncestry ==
    /\ strategy # Pending /\ op = "none"
    /\ \E picks \in Tournaments(IF strategy.cls = "TopN" THEN strategy.strategy
                                ELSE strategy, Len(population)) :
         /\ data' = picks
         /\ held' = PlainSelect(IF strategy.cls = "TopN" THEN strategy.strategy
                                ELSE strategy, my_genome, population, picks)
         /\ ancestry' = Declared(my_genome, population,
                                 select_ancestry(strategy, my_genome, population, picks))
    /\ op' = "select_ancestry"
    /\ UNCHANGED <<treeVars, called, outcome, strategy, population, my_genome, pc,
                   offspring, mutated_offspring, returned, applied, trace, next_id>>

AncestryNext == NewStrategy \/ NewTopN \/ ApplyAncestry

SpecAncestry == AncestryInit /\ [][AncestryNext]_vars

\* C19: whenever a concrete ancestry strategy returns a declaration, its
\* probabilities sum to 1.
C19_ProbabilitiesSumToOne ==
    (op = "select_ancestry" /\ IsReturn(ancestry))
      => FSum(ProbabilitiesOf(ancestry.value)) = Frac(1, 1)

\* the number of genomes ranked before position i by ascending fitness, equal
\* fitness in population order
Before(i) ==
    Cardinality({j \in DOMAIN population :
                   \/ The(population[j].fitness) < The(population[i].fitness)
                   \/ /\ population[j].fitness = population[i].fitness
                      /\ j < i})

Candidate == CHOOSE i \in DOMAIN population : population[i].obj = my_genome.obj

\* C20: EliteBreeds on a population larger than thrive_count + die_count
\* returns, in population order, probability 1 for the candidate and 0 for the
\* others when the candidate is ranked by ascending fitness among the top
\* thrive_count or in the middle tier, and 1/thrive_count for each of the top
\* thrive_count genomes and 0 for the others when the candidate is among the
\* bottom die_count.
C20_EliteBreedsTiers ==
    (/\ op = "select_ancestry"
     /\ strategy.cls = "EliteBreeds"
     /\ strategy.thrive_count + strategy.die_count < Len(population))
      => /\ IsReturn(ancestry)
         /\ Len(ancestry.value) = Len(population)
         /\ \A i \in DOMAIN population :
               /\ ancestry.value[i][2] = population[i].uuid
               /\ ancestry.value[i][1] =
                    IF Before(Candidate) < Len(population) - strategy.die_count
                    THEN (IF i = Candidate THEN <<1, 1>> ELSE <<0, 1>>)
                    ELSE (IF Before(i) < strategy.thrive_count
                          THEN <<1, strategy.thrive_count>> ELSE <<0, 1>>)

C20_Witness ==
    /\ op = "select_ancestry"
    /\ strategy.cls = "EliteBreeds"
    /\ strategy.thrive_count = 2 /\ strategy.die_count = 1
    /\ FitnessOf(population) = <<4, 2, 4, 2>>
    /\ my_genome.obj = 3
    /\ IsReturn(ancestry)
    /\ ProbabilitiesOf(ancestry.value) = <<<<0, 1>>, <<1, 2>>, <<0, 1>>, <<1, 2>>>>

\* p * q
FMul(p, q) == Frac(p[1] * q[1], p[2] * q[2])

\* position i of the declaration has a larger probability than position j, or
\* the same probability and a lower position
Outranks(declaration, i, j) ==
    \/ FLess(declaration[j][1], declaration[i][1])
    \/ declaration[j][1] = declaration[i][1] /\ i < j

\* the sets of positions TopN may keep: n of them (all when there are fewer),
\* each outranking every position left out
KeptSets(declaration, n) ==
    {K \in SUBSET DOMAIN declaration :
       /\ Cardinality(K) = Min2(n, Len(declaration))
       /\ \A i \in K : \A j \in (DOMAIN declaration) \ K : Outranks(declaration, i, j)}

\* the sum of the probabilities at the positions K
KeptTotal(declaration, K) ==
    FSum([i \in DOMAIN declaration |->
            IF i \in K THEN declaration[i][1] ELSE Frac(0, 1)])

\* C21: TopN(n, inner) returns the declaration of the inner strategy with the
\* same identifiers in the same order, in which the n entries of highest
\* probability (ties to the lower population index) carry their probability
\* divided by the sum of the kept probabilities and every other entry carries
\* probability 0.
C21_TopNClipsAndRenormalises ==
    (/\ op = "select_ancestry"
     /\ strategy.cls = "TopN"
     /\ IsReturn(held))
      => /\ IsReturn(ancestry)
         /\ Len(ancestry.value) = Len(held.value)
         /\ \E K \in KeptSets(held.value, strategy.n) :
               \A i \in DOMAIN held.value :
                  /\ ancestry.value[i][2] = held.value[i][2]
                  /\ i \notin K => ancestry.value[i][1] = Frac(0, 1)
                  /\ i \in K =>
                       FMul(ancestry.value[i][1], KeptTotal(held.value, K))
                         = held.value[i][1]

\* Rank selection gave 1/2, 1/3, 1/6; TopN(2, ...) returned 3/5, 2/5, 0
C21_Witness ==
    /\ op = "select_ancestry"
    /\ strategy.cls = "TopN" /\ strategy.n = 2
    /\ IsReturn(held) /\ IsReturn(ancestry)
    /\ ProbabilitiesOf(held.value) = <<<<1, 2>>, <<1, 3>>, <<1, 6>>>>
    /\ ProbabilitiesOf(ancestry.value) = <<<<3, 5>>, <<2, 5>>, <<0, 1>>>>

(***************************************************************************)
(* Concrete crossbreeding and mutation hooks.  A hook is called with the   *)
(* template allele, the alleles of the population at the same position and *)
(* the ancestry declaration; the random draws are chosen by the caller.    *)
(***************************************************************************)
\* a variant of the next definition that counts every parent as live
LiveIndices_All(declaration) == [i \in DOMAIN declaration |-> i]

\* [i for i in range(len(ancestry)) if ancestry[i][0] > 0.0]
LiveIndices(declaration) ==
    SelectSeq([i \in DOMAIN declaration |-> i],
              LAMBDA i : FLess(Frac(0, 1), declaration[i][1]))

SimulatedBinaryCrossover(default_eta, use_metalearning) ==
    IF default_eta <= 0 THEN Raise("ValueError")
    ELSE [kind |-> "strategy", cls |-> "SimulatedBinaryCrossover",
          default_eta |-> default_eta, use_metalearning |-> use_metalearning]

\* the draws of _random() the model takes, in halves: 0.0 and 0.5
Draws == {0, 1}

\* beta of SBX for the draw u, in halves: (2u) ** (1 / (eta + 1)) is 0 for
\* u = 0.0 and 1 for u = 0.5, whatever eta is
Beta(u, eta) == IF u = 0 THEN 0 ELSE 2

\* 0.5 * ((1 + beta) * x + (1 - beta) * y), all in halves
Blend(beta, x, y) == ((2 + beta) * x + (2 - beta) * y) \div 4

\* the end of SimulatedBinaryCrossover.handle_crossbreeding for the two
\* parent values p1 and p2 and the draws u and w
SBXChild(template, p1, p2, beta, w) ==
    with_value(template, IF w < 1 THEN Blend(beta, p1, p2) ELSE Blend(beta, p2, p1))

\* SimulatedBinaryCrossover.handle_crossbreeding
SBXCrossbreeding(self, template, allele_population, live_indices, draws) ==
    IF Len(live_indices) # 2 THEN Raise("ValueError")
    ELSE SBXChild(template,
                  ValueOf(allele_population[live_indices[1]]),
                  ValueOf(allele_population[live_indices[2]]),
                  Beta(draws[1], IF "eta" \in DOMAIN template.metadata
                                 THEN template.metadata.eta.v ELSE self.default_eta),
                  draws[2])

NumericTypes == {"FloatAllele", "IntAllele", "LogFloatAllele"}

DifferentialEvolution(default_F, default_sampling_mode, use_metalearning) ==
    IF default_F <= 0 THEN Raise("ValueError")
    ELSE IF default_sampling_mode \notin {"random", "weighted"} THEN Raise("ValueError")
    ELSE [kind |-> "strategy", cls |-> "DifferentialEvolution", default_F |-> default_F,
          default_sampling_mode |-> default_sampling_mode,
          use_metalearning |-> use_metalearning]

\* the raw_value property: the float the integer allele stores
RawValueOf(a) == a.value

\* a variant of the next definition that lists the value of every member
LiveValues_Everyone(allele, allele_population, live_indices) ==
    [k \in DOMAIN allele_population |->
       IF allele.type = "IntAllele" THEN RawValueOf(allele_population[k])
       ELSE ValueOf(allele_population[k])]

\* live_values of DifferentialEvolution.handle_mutating
LiveValues(allele, allele_population, live_indices) ==
    [k \in DOMAIN live_indices |->
       IF allele.type = "IntAllele" THEN RawValueOf(allele_population[live_indices[k]])
       ELSE ValueOf(allele_population[live_indices[k]])]

\* new_value of DifferentialEvolution.handle_mutating, F in halves; the log
\* allele is computed for F = 1.0 only, where (val1 / val2) ** F is the
\* quotient, and a result below 0.5 is clamped to the minimum like 0
DEValue(allele, F, val1, val2) ==
    CASE allele.type = "IntAllele" -> RawValueOf(allele) + (F * (val1 - val2)) \div 2
      [] allele.type = "LogFloatAllele" -> (ValueOf(allele) * val1) \div val2
      [] OTHER -> ValueOf(allele) + (F * (val1 - val2)) \div 2

\* the sampling and the end of DifferentialEvolution.handle_mutating: picks
\* are the two positions of live_values that _choose_two or
\* _weighted_choose_two drew; numpy refuses weights that do not sum to 1
DESample(allele, F, sampling_mode, live_values, live_weights, picks) ==
    IF sampling_mode = "weighted" /\ FSum(live_weights) # Frac(1, 1)
    THEN Raise("ValueError")
    ELSE with_value(allele, DEValue(allele, F, live_values[picks[1]], live_values[picks[2]]))

\* DifferentialEvolution.handle_mutating
DEMutating(self, allele, allele_population, declaration, picks) ==
    IF allele.type \notin NumericTypes THEN Raise("TypeError")
    ELSE IF Len(LiveIndices(declaration)) < 3 THEN Raise("ValueError")
    ELSE DESample(allele,
                  IF "F" \in DOMAIN allele.metadata THEN allele.metadata.F.v
                  ELSE self.default_F,
                  IF "sampling_mode" \in DOMAIN allele.metadata
                  THEN allele.metadata.sampling_mode.v ELSE self.default_sampling_mode,
                  LiveValues(allele, allele_population, LiveIndices(declaration)),
                  [k \in DOMAIN LiveIndices(declaration) |->
                     declaration[LiveIndices(declaration)[k]][1]],
                  picks)

\* GaussianMutation(...) and CauchyMutation(...): spread is default_std or
\* default_scale
NoiseMutation(cls, spread, default_mutation_chance, use_metalearning) ==
    IF spread <= 0 THEN Raise("ValueError")
    ELSE IF ~(0 <= default_mutation_chance /\ default_mutation_chance <= 2)
    THEN Raise("ValueError")
    ELSE [kind |-> "strategy", cls |-> cls, spread |-> spread,
          default_mutation_chance |-> default_mutation_chance,
          use_metalearning |-> use_metalearning]

UniformMutation(default_mutation_chance, use_metalearning) ==
    IF ~(0 <= default_mutation_chance /\ default_mutation_chance <= 2)
    THEN Raise("ValueError")
    ELSE [kind |-> "strategy", cls |-> "UniformMutation",
          default_mutation_chance |-> default_mutation_chance,
          use_metalearning |-> use_metalearning]

\* allele.metadata.get("mutation_chance", self.default_mutation_chance)
MutationChance(self, allele) ==
    IF "mutation_chance" \in DOMAIN allele.metadata
    THEN allele.metadata.mutation_chance.v ELSE self.default_mutation_chance

\* value * math.exp(noise) for the noises -1.0, 0.0 and 1.0 (in halves), with
\* 2 in the place of e so that the product stays exact
TimesExp(value, noise) ==
    IF noise >= 0 THEN value * Power(2, noise \div 2)
    ELSE value \div Power(2, (-noise) \div 2)

\* GaussianMutation.handle_mutating and CauchyMutation.handle_mutating, which
\* differ in the distribution of the noise only; draw is what _random()
\* returned
NoiseMutating(self, allele, draw, noise) ==
    IF draw > MutationChance(self, allele) THEN allele
    ELSE CASE allele.type = "IntAllele" -> with_value(allele, RawValueOf(allele) + noise)
           [] allele.type = "LogFloatAllele" ->
                with_value(allele, TimesExp(ValueOf(allele), noise))
           [] allele.type = "FloatAllele" -> with_value(allele, ValueOf(allele) + noise)
           [] OTHER -> Raise("TypeError")

\* the square root of a square number
Sqrt(x) == CHOOSE k \in 0..x : k * k = x

\* new_value of UniformMutation.handle_mutating for the second draw r (0.0 or
\* 0.5) or the choice among [True, False]; a bound of None cannot be added
UniformValue(allele, r, choice) ==
    CASE allele.type = "BoolAllele" -> Return(PyBool(choice))
      [] allele.domain.min = None \/ allele.domain.max = None -> Raise("TypeError")
      [] allele.type = "LogFloatAllele" ->
           Return(IF r = 0 THEN The(allele.domain.min)
                  ELSE Sqrt(The(allele.domain.min) * The(allele.domain.max)))
      [] OTHER ->
           Return(The(allele.domain.min)
                  + (r * (The(allele.domain.max) - The(allele.domain.min))) \div 2)

\* the end of UniformMutation.handle_mutating
UniformReplace(allele, sampled) ==
    IF IsRaise(sampled) THEN sampled ELSE with_value(allele, sampled.value)

\* UniformMutation.handle_mutating
UniformMutating(self, allele, draw, r, choice) ==
    IF draw > MutationChance(self, allele) THEN allele
    ELSE UniformReplace(allele, UniformValue(allele, r, choice))

(***************************************************************************)
(* Hook specification: one hook call on a template, a population of        *)
(* alleles of the template's class and a declaration.                      *)
(***************************************************************************)
HookClasses == NumericTypes \cup {"BoolAllele"}

\* an allele of class cls for the number v (in halves); the log allele takes
\* the power of two 2 ** (v / 2), so that quotients of values stay exact
HookAllele(cls, v, metadata) ==
    CASE cls = "FloatAllele" -> FloatAllele(v, PyNone, TRUE, TRUE, metadata)
      [] cls = "IntAllele" ->
           IntAllele(v, [min |-> Some(0), max |-> Some(20)], TRUE, TRUE, metadata)
      [] cls = "LogFloatAllele" ->
           LogFloatAllele(Power(2, v \div 2), [min |-> Some(2), max |-> Some(32)],
                          TRUE, TRUE, metadata)
      [] OTHER -> BoolAllele(PyBool(v % 4 = 0), TRUE, TRUE, metadata)

\* the probabilities a declaration of this specification holds
HookProbabilities == {Frac(0, 1), Frac(1, 4), Frac(1, 2)}

HookDeclarations(n) ==
    {[i \in 1..n |-> <<f[i], i>>] : f \in [1..n -> HookProbabilities]}

\* the flattened metadata of the template: empty, or raw hyperparameters
HookMetadata(tag) ==
    IF tag = "plain" THEN EmptyDict
    ELSE [eta |-> Raw(4), mutation_chance |-> Raw(IF tag = "never" THEN 0 ELSE 2)]

HookInit ==
    /\ template_idx = 0
    /\ handler = Function("unset")
    /\ include_can_mutate = PyNone
    /\ include_can_crossbreed = PyNone
    /\ synth = Pending
    /\ walked = Pending
    /\ population = <<>>
    /\ my_genome = Genome(0, 0, EmptyDict, None, None)
    /\ op = "none"
    /\ pc = "start"
    /\ offspring = Pending
    /\ mutated_offspring = Pending
    /\ returned = Pending
    /\ applied = GenomeOut(Pending, <<>>)
    /\ trace = <<>>
    /\ next_id = 1
    /\ called = Pending
    /\ outcome = Pending
    /\ data = Pending
    /\ strategy = Pending
    /\ \E cls \in HookClasses, n \in 1..(MaxPop + 2), tag \in {"plain", "never", "always"} :
         /\ held = HookAllele(cls, 4, HookMetadata(tag))
         /\ alleles = [i \in 1..n |-> HookAllele(cls, 2 * i, EmptyDict)]
         /\ ancestry \in HookDeclarations(n)

\* what a hook call leaves alone
HookFrame ==
    UNCHANGED <<alleles, template_idx, handler, include_can_mutate, include_can_crossbreed,
                synth, walked, population, my_genome, pc, ancestry, offspring,
                mutated_offspring, returned, applied, trace, next_id, held, called>>

\* outcome = SimulatedBinaryCrossover(...).handle_crossbreeding(held, alleles, ancestry)
SBXCrossbreed ==
    /\ op = "none" /\ held.type \in NumericTypes
    /\ \E u \in Draws, w \in Draws :
         /\ data' = <<u, w>>
         /\ strategy' = SimulatedBinaryCrossover(DefaultEta, FALSE)
         /\ outcome' = SBXCrossbreeding(strategy', held, alleles,
                                        LiveIndices(ancestry), data')
    /\ op' = "SimulatedBinaryCrossover"
    /\ HookFrame

\* the pairs of distinct positions a sampling of two can return
PairsOf(values) ==
    IF Len(values) < 2 THEN {<<0, 0>>}
    ELSE {pair \in (DOMAIN values) \X (DOMAIN values) : pair[1] # pair[2]}

\* outcome = DifferentialEvolution(...).handle_mutating(held, alleles, ancestry)
DEMutate ==
    /\ op = "none"
    /\ \E mode \in {"random", "weighted"} :
         \E picks \in PairsOf(LiveValues(held, alleles, LiveIndices(ancestry))) :
            /\ data' = picks
            /\ strategy' = DifferentialEvolution(2, mode, FALSE)
            /\ outcome' = DEMutating(strategy', held, alleles, ancestry, data')
    /\ op' = "DifferentialEvolution"
    /\ HookFrame

\* the mutation chances 0.0 and 1.0 and the noises -1.0 and 1.0, in halves
Chances == {0, 2}

Noises == {-2, 2}

\* outcome = GaussianMutation(...).handle_mutating(held, alleles, ancestry)
GaussianMutate ==
    /\ op = "none"
    /\ \E chance \in Chances, draw \in Draws, noise \in Noises :
         /\ data' = <<draw, noise>>
         /\ strategy' = NoiseMutation("GaussianMutation", 1, chance, FALSE)
         /\ outcome' = NoiseMutating(strategy', held, draw, noise)
    /\ op' = "GaussianMutation"
    /\ HookFrame

\* outcome = CauchyMutation(...).handle_mutating(held, alleles, ancestry)
CauchyMutate ==
    /\ op = "none"
    /\ \E chance \in Chances, draw \in Draws, noise \in Noises :
         /\ data' = <<draw, noise>>
         /\ strategy' = NoiseMutation("CauchyMutation", 1, chance, FALSE)
         /\ outcome' = NoiseMutating(strategy', held, draw, noise)
    /\ op' = "CauchyMutation"
    /\ HookFrame

\* outcome = UniformMutation(...).handle_mutating(held, alleles, ancestry)
UniformMutate ==
    /\ op = "none"
    /\ \E chance \in Chances, draw \in Draws, r \in Draws, choice \in BOOLEAN :
         /\ data' = <<draw, r, choice>>
         /\ strategy' = UniformMutation(chance, FALSE)
         /\ outcome' = UniformMutating(strategy', held, draw, r, choice)
    /\ op' = "UniformMutation"
    /\ HookFrame

HookNext == SBXCrossbreed \/ DEMutate \/ GaussianMutate \/ CauchyMutate \/ UniformMutate

SpecHook == HookInit /\ [][HookNext]_vars

\* the positions of the declaration whose probability is not zero
NonZero == {i \in DOMAIN ancestry : ancestry[i][1] # <<0, 1>>}

Positive == {i \in DOMAIN ancestry : ancestry[i][1][1] > 0}

\* C23: differential evolution raises an error whenever fewer than three
\* members have a probability greater than 0, and a returned allele carries
\* the value computed from the values of two distinct members of probability
\* greater than 0.
C23_DEDonorsAreLive ==
    op = "DifferentialEvolution"
      => /\ Cardinality(Positive) < 3 => IsRaise(outcome)
         /\ IsAllele(outcome) =>
              \E i \in Positive, j \in Positive :
                 /\ i # j
                 /\ outcome =
                      with_value(held,
                                 DEValue(held, strategy.default_F,
                                         alleles[i].value, alleles[j].value))

\* members 1, 3 and 4 of four are live; the donors are members 4 and 1
C23_Witness ==
    /\ op = "DifferentialEvolution"
    /\ held.type = "FloatAllele"
    /\ Len(alleles) = 4
    /\ Positive = {1, 3, 4}
    /\ data = <<3, 1>>
    /\ IsAllele(outcome)
    /\ outcome.value = 10

(***************************************************************************)
(* Properties of the synthesis at excluded nodes and raw values            *)
(***************************************************************************)
\* the node passes the filter arguments of the call
PassesFilter(a) ==
    /\ include_can_mutate.b \/ a.can_mutate
    /\ include_can_crossbreed.b \/ a.can_crossbreed

\* the nodes below key k of the parallel nodes
Below(nodes, k) == [j \in DOMAIN nodes |-> nodes[j].metadata[k]]

\* the handler was called for the parallel nodes
CalledFor(nodes, calls) ==
    \E c \in DOMAIN calls : calls[c].sources = [j \in DOMAIN nodes |-> flatten(nodes[j])]

\* for parallel nodes whose template is excluded: no handler call, the value
\* of the template, and under every allele-valued key the synthesis of the
\* children, with a handler call if the child passes the filter
ExcludedKept(nodes, result, calls) ==
    (IsAllele(nodes[template_idx]) /\ ~PassesFilter(nodes[template_idx]))
      => /\ IsAllele(result)
         /\ result.value = nodes[template_idx].value
         /\ ~CalledFor(nodes, calls)
         /\ \A k \in DOMAIN nodes[template_idx].metadata :
               IsAllele(nodes[template_idx].metadata[k])
                 => /\ result.metadata[k] =
                         _synthesize_allele_trees_impl(
                             template_idx, Below(nodes, k), handler,
                             include_can_mutate, include_can_crossbreed).node
                    /\ PassesFilter(nodes[template_idx].metadata[k])
                         => CalledFor(Below(nodes, k), calls)

\* C24: at a node excluded by the inclusion filter the handler is not called
\* and the result carries the template's value, while the allele-valued
\* metadata children of the node are synthesized, with a handler call for
\* each child that passes the filter, and appear in the result; stated for the
\* root and for the nodes directly below it.
C24_ExcludedNodeKeepsValue ==
    (synth # Pending /\ ~IsRaise(synth.node))
      => /\ ExcludedKept(alleles, synth.node, synth.calls)
         /\ \A k \in DOMAIN alleles[template_idx].metadata :
               ExcludedKept(Below(alleles, k), synth.node.metadata[k], synth.calls)

\* the excluded root keeps its value 1.0 while its children a and b take the
\* values of the last source
C24_Witness ==
    /\ synth # Pending
    /\ alleles = <<Node(FALSE, [a |-> Leaf(4, TRUE, TRUE), b |-> Leaf(6, TRUE, TRUE)]),
                   Node(FALSE, [a |-> Leaf(6, TRUE, TRUE), b |-> Leaf(4, TRUE, TRUE)])>>
    /\ template_idx = 1
    /\ handler = Function("take_last")
    /\ include_can_mutate = PyBool(FALSE)
    /\ Len(synth.calls) = 2
    /\ synth.node = Node(FALSE, [a |-> Leaf(6, TRUE, TRUE), b |-> Leaf(4, TRUE, TRUE)])

\* the sources agree with the template on the raw value at key k
AgreeAt(k) ==
    \A j \in DOMAIN alleles :
       /\ k \in DOMAIN alleles[j].metadata
       /\ alleles[j].metadata[k] = alleles[template_idx].metadata[k]

\* C25: at a metadata key of the root where the template holds a raw value,
\* the synthesis raises when a source holds another raw value, an allele or
\* nothing there, and a synthesis that returns carries the raw value
\* unchanged.
C25_RawValuesMustAgree ==
    (synth # Pending /\ template_idx >= 1)
      => \A k \in DOMAIN alleles[template_idx].metadata :
            ~IsAllele(alleles[template_idx].metadata[k])
              => /\ ~AgreeAt(k) => IsRaise(synth.node)
                 /\ ~IsRaise(synth.node)
                      => synth.node.metadata[k] = alleles[template_idx].metadata[k]

\* two sources with the raw values 2.5 and 3.0 at key a
C25_Witness ==
    /\ synth # Pending
    /\ alleles = <<Node(TRUE, [a |-> Raw(5)]), Node(TRUE, [a |-> Raw(6)])>>
    /\ template_idx = 2
    /\ synth.node = Raise("ValueError")

(***************************************************************************)
(* Tournament specification: tournament selections of up to MaxRounds      *)
(* rounds on three evaluated genomes.                                      *)
(***************************************************************************)
\* the fitnesses of the populations: all distinct, and with ties
TournamentFitnesses == {<<2, 4, 6>>, <<4, 2, 2>>}

TournamentInit ==
    /\ TreeIdle
    /\ UnitIdle
    /\ \E f \in TournamentFitnesses :
         population = [i \in DOMAIN f |-> Genome(i, i, EmptyDict, None, Some(f[i]))]
    /\ my_genome = population[1]
    /\ op = "none"
    /\ pc = "start"
    /\ ancestry = Pending
    /\ offspring = Pending
    /\ mutated_offspring = Pending
    /\ returned = Pending
    /\ applied = GenomeOut(Pending, <<>>)
    /\ trace = <<>>
    /\ next_id = 0

\* strategy = TournamentSelection(tournament_size, num_tournaments)
NewTournament ==
    /\ strategy = Pending /\ outcome = Pending
    /\ \E tournament_size \in 1..2, num_tournaments \in 0..MaxRounds :
         /\ called' = [cls |-> "TournamentSelection", x |-> tournament_size,
                       y |-> num_tournaments]
         /\ outcome' = TournamentSelection(tournament_size, num_tournaments)
         /\ strategy' = IF IsRaise(outcome') THEN Pending ELSE outcome'
    /\ UNCHANGED <<treeVars, genomeVars, held, data>>

TournamentNext == NewTournament \/ ApplyAncestry

SpecTournament == TournamentInit /\ [][TournamentNext]_vars

\* the sampled genomes of round t that no sampled genome of the round beats
Lowest(t) ==
    {data[t][k] : k \in {k \in DOMAIN data[t] :
        \A m \in DOMAIN data[t] :
           population[data[t][k]].fitness = population[data[t][m]].fitness
           \/ The(population[data[t][k]].fitness) < The(population[data[t][m]].fitness)}}

\* C26: a tournament selection of num_tournaments >= 1 rounds draws exactly
\* num_tournaments rounds of tournament_size genomes, a sampled genome of
\* lowest fitness wins each round, and the declaration gives every member, in
\* population order, the number of rounds it won divided by num_tournaments:
\* at least the rounds in which it alone had the lowest fitness, at most the
\* rounds in which it had the lowest fitness, and one win per round in total.
C26_TournamentWinFractions ==
    (/\ op = "select_ancestry"
     /\ strategy.cls = "TournamentSelection"
     /\ strategy.num_tournaments >= 1)
      => /\ IsReturn(ancestry)
         /\ Len(data) = strategy.num_tournaments
         /\ \A t \in DOMAIN data : Len(data[t]) = strategy.tournament_size
         /\ Len(ancestry.value) = Len(population)
         /\ FSum(ProbabilitiesOf(ancestry.value)) = <<1, 1>>
         /\ \A i \in DOMAIN population :
               /\ ancestry.value[i][2] = population[i].uuid
               /\ ancestry.value[i][1][1] * strategy.num_tournaments
                    >= Cardinality({t \in DOMAIN data : Lowest(t) = {i}})
                         * ancestry.value[i][1][2]
               /\ ancestry.value[i][1][1] * strategy.num_tournaments
                    <= Cardinality({t \in DOMAIN data : i \in Lowest(t)})
                         * ancestry.value[i][1][2]

\* tournament size 2, 4 rounds, fitness 1.0, 2.0, 3.0 and the index pairs
\* (0,1), (0,2), (0,1), (1,2) give 0.75, 0.25, 0.0
C26_Witness ==
    /\ op = "select_ancestry"
    /\ strategy.cls = "TournamentSelection"
    /\ strategy.tournament_size = 2 /\ strategy.num_tournaments = 4
    /\ FitnessOf(population) = <<2, 4, 6>>
    /\ data = <<<<1, 2>>, <<1, 3>>, <<1, 2>>, <<2, 3>>>>
    /\ IsReturn(ancestry)
    /\ ProbabilitiesOf(ancestry.value) = <<<<3, 4>>, <<1, 4>>, <<0, 1>>>>

\* C27: with a mutation chance of 0, Gaussian, Cauchy and Uniform mutation
\* return the allele unchanged, whatever the uniform draw is.
C27_ChanceZeroNeverMutates ==
    (/\ op \in {"GaussianMutation", "CauchyMutation", "UniformMutation"}
     /\ MutationChance(strategy, held) = 0)
      => outcome = held

\* C28: Gaussian and Cauchy mutation return a boolean allele unchanged and
\* raise no error, whatever the mutation chance is.
C28_BoolSkippedSilently ==
    (/\ op \in {"GaussianMutation", "CauchyMutation"}
     /\ held.type = "BoolAllele")
      => outcome = held

(***************************************************************************)
(* The Individual of a round.  duty_cycle counts quarters (2 = 0.5), which *)
(* floating point holds exactly.  The expression of the genome is recorded *)
(* as the step number and the expression mode it was made with.            *)
(***************************************************************************)
\* int(n / d) of Python for d > 0: truncation toward zero
IntOf(n, d) == IF n >= 0 THEN n \div d ELSE -((-n) \div d)

\* the mode property
Individual_mode(self) ==
    IF self.step_num >= IntOf(self.round_length * (4 - self.duty_cycle), 4)
    THEN "competitive" ELSE "cooperative"

\* express(): GenomeExpression.express and State.apply_patches are taken to
\* return
Individual_express(self) ==
    [self EXCEPT !.expressed =
       Append(@, [step_num |-> self.step_num,
                  mode |-> IF Individual_mode(self) = "cooperative"
                           THEN "cooperative" ELSE "all"])]

\* Individual(state, communicator, round_length, duty_cycle)
Individual(round_length, duty_cycle) ==
    Individual_express([round_length |-> round_length, duty_cycle |-> duty_cycle,
                        step_num |-> 0, done |-> FALSE, expressed |-> <<>>])

\* a variant of the next definition that never expresses
Reexpress_Never(prev_mode, self) == self

\* if self.mode != prev_mode: self.express()
Reexpress(prev_mode, self) ==
    IF Individual_mode(self) # prev_mode THEN Individual_express(self) ELSE self

\* a variant of the next definition that is done one step late
Finish_Late(self) ==
    IF self.step_num > self.round_length THEN [self EXCEPT !.done = TRUE] ELSE self

\* if self._step_num >= self._round_length: self._done = True
Finish(self) ==
    IF self.step_num >= self.round_length THEN [self EXCEPT !.done = TRUE] ELSE self

\* step(): the Individual afterwards and what the call returned or raised
Individual_step(self) ==
    IF self.done THEN [self |-> self, result |-> Raise("RuntimeError")]
    ELSE [self |-> Finish(Reexpress(Individual_mode(self),
                                    [self EXCEPT !.step_num = @ + 1])),
          result |-> Return(PyNone)]

\* what a caller observes of the Individual after a call
Observed(self, result) ==
    [done |-> self.done, mode |-> Individual_mode(self), step_num |-> self.step_num,
     raised |-> IsRaise(result)]

\* duty cycles from -0.25 to 1.25; the constructor checks nothing
DutyCycles == (-1)..5

IndividualInit ==
    /\ TreeIdle
    /\ GenomeIdle
    /\ called = Pending
    /\ outcome = Pending
    /\ strategy = Pending
    /\ \E round_length \in 0..MaxRoundLength, duty_cycle \in DutyCycles :
         held = Individual(round_length, duty_cycle)
    /\ data = <<Observed(held, Pending)>>

\* individual.step(), up to two calls after the round is done
StepIndividual ==
    /\ Len(data) < held.round_length + 3
    /\ outcome' = Individual_step(held)
    /\ held' = outcome'.self
    /\ data' = Append(data, Observed(held', outcome'.result))
    /\ UNCHANGED <<treeVars, genomeVars, called, strategy>>

IndividualNext == StepIndividual

SpecIndividual == IndividualInit /\ [][IndividualNext]_vars

CompetitiveStart ==
    CHOOSE k \in (-MaxRoundLength - 1)..(MaxRoundLength + 1) :
       IF held.round_length * (4 - held.duty_cycle) >= 0
       THEN 4 * k <= held.round_length * (4 - held.duty_cycle)
            /\ held.round_length * (4 - held.duty_cycle) < 4 * k + 4
       ELSE 4 * k - 4 < held.round_length * (4 - held.duty_cycle)
            /\ held.round_length * (4 - held.duty_cycle) <= 4 * k

====
